---------------------------- MODULE Spec2Model ----------------------------
(***************************************************************************)
(* Model of the dcm-sip-builder metadata compilers (DCCompiler,            *)
(* IECompiler with its representation deriver), of the XMLValidator        *)
(* constructor and of the validator set-up of the BuildView.               *)
(*                                                                         *)
(* Python values are encoded as follows.                                   *)
(*   None              the record None where an object is expected, the    *)
(*                     reserved string NoneStr where a str is expected     *)
(*   str               a TLA+ string                                       *)
(*   a baginfo value   [str |-> s] for a bare string, [list |-> <<..>>]    *)
(*                     for a list of strings (isinstance(value, list))     *)
(*   dict              [items |-> sequence of <<key, value>> pairs] in     *)
(*                     insertion order, keys pairwise distinct             *)
(*   lxml element      [tag, attrib, nsmap, text, children]                *)
(*   Logger            a sequence of entries [ctx, origin, body, arg]      *)
(***************************************************************************)
EXTENDS Integers, Sequences, FiniteSets, TLC

VARIABLES
    ip,               \* the Input Model handed to the compilers
    dc_log,           \* DCCompiler.log
    dc_doc,           \* element returned by the last DCCompiler._compile
    dc_str,           \* string returned by the last DCCompiler.compile_as_string
    dc_prev,          \* string returned by the DCCompiler call before the last
    ie_log,           \* IECompiler.log
    ie_doc,           \* element returned by the last IECompiler._compile
    ie_str,           \* string returned by the last IECompiler.compile_as_string
    ie_prev,          \* string returned by the IECompiler call before the last
    dmdsec,           \* descriptive section built by the last compile_dmdsec
    representations,  \* list returned by the last _generate_representation_info
    validator,        \* instance made by the last XMLValidator(...) call
    ctor_args,        \* arguments of the last XMLValidator(...) call
    load_calls,       \* schema classes that call handed to _load_xml_schema
    doc,              \* document of the instance's last validate/is_valid call
    vlog,             \* what that call returned, when it was validate
    valid,            \* what that call returned, when it was is_valid
    config,           \* AppConfig handed to the last BuildView(...) call
    loadable,         \* schema sources that could be loaded during that call
    view,             \* the BuildView made by that call, or the error it raised
    mv,               \* tuple returned by make_validator during that call
    stderr,           \* lines printed to sys.stderr
    events,           \* XMLValidator(...) and print calls of that call, in order
    builder_log,      \* Builder.log
    sip,              \* the SIP handed to the last Builder.build, as it left it
    report,           \* report of the view's last build job
    job_calls,        \* component calls of that job, in order
    build_call,       \* what the last Builder.build returned and attempted
    jobs              \* build jobs that run side by side on the view

vars == <<ip, dc_log, dc_doc, dc_str, dc_prev, ie_log, ie_doc, ie_str, ie_prev,
          dmdsec, representations, validator, ctor_args, load_calls, doc, vlog,
          valid, config, loadable, view,
          mv,
          stderr, events, builder_log, sip, report, job_calls,
          build_call, jobs>>

compilerVars == <<ip, dc_log, dc_doc, dc_str, dc_prev, ie_log, ie_doc, ie_str,
                  ie_prev, dmdsec, representations>>

validatorVars == <<validator, ctor_args, load_calls, doc, vlog, valid>>

viewVars == <<config, loadable, view, mv, stderr, events, builder_log, sip,
             report, job_calls, build_call, jobs>>

-----------------------------------------------------------------------------
(* Bounds of the model *)

\* longest baginfo (number of keys) among the baginfos of any key order
MaxBaginfoLen == 3

\* most children of the root of a supplied dc.xml
MaxDcXmlLen == 2

\* most files listed for 'preservation_master'
MaxFiles == 2

\* most representations of the category 'modified_master'
MaxReps == 2

-----------------------------------------------------------------------------
(* Python values *)

None == [none |-> TRUE]

NoneStr == "<None>"

\* marker for a call that ended with an exception instead of a return value
Raised(exc) == [raised |-> exc]

IsRaised(v) == "raised" \in DOMAIN v

Str(s) == [str |-> s]

List(xs) == [list |-> xs]

IsList(v) == "list" \in DOMAIN v

Range(s) == {s[i] : i \in 1..Len(s)}

Dict(pairs) == [items |-> pairs]

\* key in d, for a dict d
HasKey(d, k) == \E i \in 1..Len(d.items) : d.items[i][1] = k

\* d[k], for a dict d that has the key k
Get(d, k) == d.items[CHOOSE i \in 1..Len(d.items) : d.items[i][1] = k][2]

\* list(d), the keys in insertion order
KeyList(d) == [i \in 1..Len(d.items) |-> d.items[i][1]]

\* the sequences of pairs whose keys are pairwise distinct
DistinctKeys(pairs) ==
    \A i, j \in 1..Len(pairs) : pairs[i][1] = pairs[j][1] => i = j

RECURSIVE FlattenSeq(_)
\* concatenation of a sequence of sequences
FlattenSeq(ss) ==
    IF ss = <<>> THEN <<>> ELSE Head(ss) \o FlattenSeq(Tail(ss))

-----------------------------------------------------------------------------
(* Logger of dcm_common, as far as the compilers use it *)

ERROR == "ERROR"

WARNING == "WARNING"

INFO == "INFO"

Logger == <<>>

LogEntry(ctx, origin, body, arg) ==
    [ctx |-> ctx, origin |-> origin, body |-> body, arg |-> arg]

\* a call that goes on with the log the instance had
ResetLog_Keep(log) == log

\* self.log = Logger(default_origin=self.TAG), the first statement of
\* DCCompiler._compile, IECompiler._compile and Builder.build
ResetLog(log) == Logger

\* log[Context.X]
Pick(log, ctx) == SelectSeq(log, LAMBDA e : e.ctx = ctx)

-----------------------------------------------------------------------------
(* lxml elements *)

Element(tag, attrib, nsmap, text, children) ==
    [tag |-> tag, attrib |-> attrib, nsmap |-> nsmap, text |-> text,
     children |-> children]

\* a leaf created by et.SubElement(parent, tag).text = text
Leaf(tag, text) == Element(tag, <<>>, <<>>, text, <<>>)

RECURSIVE Serialize(_)
\* the document's serialization as a sequence of tokens: start tag with its
\* attributes and namespace declarations, text, children, end tag
Serialize(e) ==
    <<[tok |-> "start", tag |-> e.tag, attrib |-> e.attrib, nsmap |-> e.nsmap]>>
    \o (IF e.text = NoneStr THEN <<>> ELSE <<[tok |-> "text", text |-> e.text]>>)
    \o FlattenSeq([i \in 1..Len(e.children) |-> Serialize(e.children[i])])
    \o <<[tok |-> "end", tag |-> e.tag]>>

XML_DECLARATION == [tok |-> "doctype",
                    text |-> "<?xml version=\"1.0\" encoding=\"UTF-8\"?>"]

\* MetadataCompiler.tostring: the returned str, as its token sequence
tostring(xml) == [xml |-> <<XML_DECLARATION>> \o Serialize(xml)]

-----------------------------------------------------------------------------
(* XMLNS: tags are written prefix:name *)

XMLNS_to_dict(selection) ==
    SelectSeq(<<"oai", "mets", "dc", "dcterms", "rosetta", "dnx", "xlink">>,
              LAMBDA p : p \in selection)

-----------------------------------------------------------------------------
(* MetadataCompiler._listify *)

_listify(value) == IF IsList(value) THEN value.list ELSE <<value.str>>

-----------------------------------------------------------------------------
(* DCCompiler *)

DC_TAG == "dc.xml Compiler"

DC_BAG_INFO_DC_MAP ==
    << <<"DC-Title", "dc:title">>,
       <<"DC-Terms-Identifier", "dcterms:identifier">>,
       <<"Origin-System-Identifier", "rosetta:externalSystem">>,
       <<"External-Identifier", "rosetta:externalId">> >>

\* the children appended for one entry of a BAG_INFO_DC_MAP
MapEntryChildren(baginfo, entry) ==
    IF ~HasKey(baginfo, entry[1])
    THEN <<>>
    ELSE LET items == _listify(Get(baginfo, entry[1]))
         IN [i \in 1..Len(items) |-> Leaf(entry[2], items[i])]

\* MapChildren with the loop turned over: it follows the keys of baginfo
\* instead of the table
MapChildren_BaginfoOrder(baginfo, map) ==
    FlattenSeq([k \in 1..Len(baginfo.items) |->
        IF \E e \in Range(map) : e[1] = baginfo.items[k][1]
        THEN MapEntryChildren(
                 baginfo, CHOOSE e \in Range(map) : e[1] = baginfo.items[k][1])
        ELSE <<>>])

\* the loop over a BAG_INFO_DC_MAP: children in table order
MapChildren(baginfo, map) ==
    FlattenSeq([k \in 1..Len(map) |-> MapEntryChildren(baginfo, map[k])])

DC_Root(children) ==
    Element("dc:record", <<>>, XMLNS_to_dict({"dc", "dcterms", "rosetta"}),
            NoneStr, children)

\* DC_compile without the ERROR entry for an absent bag-info.txt
DC_compile_Silent(ip_) ==
    IF ip_.baginfo = None
    THEN [doc |-> DC_Root(<<>>), log |-> Logger]
    ELSE [doc |-> DC_Root(MapChildren(ip_.baginfo, DC_BAG_INFO_DC_MAP)),
          log |-> Logger]

\* DCCompiler._compile: the returned element and the log after the call
DC_compile(ip_) ==
    IF ip_.baginfo = None
    THEN [doc |-> DC_Root(<<>>),
          log |-> <<LogEntry(ERROR, DC_TAG,
                             "Missing 'bag-info.txt' metadata in target.",
                             NoneStr)>>]
    ELSE [doc |-> DC_Root(MapChildren(ip_.baginfo, DC_BAG_INFO_DC_MAP)),
          log |-> Logger]

-----------------------------------------------------------------------------
(* Python's order on str, restricted to the strings of the model: each table *)
(* lists its strings in ascending order of Python's <.                      *)

\* tags of DC elements in the order of their qualified names
\* ({http://purl.org/dc/elements/1.1/}... before {http://purl.org/dc/terms/}...)
TagOrder ==
    <<"dc:creator", "dc:identifier", "dc:rights", "dc:subject", "dc:title",
      "dcterms:accessRights", "dcterms:available", "dcterms:identifier",
      "dcterms:license", "dcterms:rights", "dcterms:rightsHolder">>

\* the place of every composite identifier 'dcm:...' among the texts
DcmTexts == "dcm:*"

TextOrder == <<"", "a", "b", DcmTexts, "x", "y">>

\* payload-relative paths and representation names
NameOrder ==
    <<"1", "10", "2",
      "derivative_copy/1/a.jpg", "derivative_copy/1/b.jpg",
      "derivative_copy/2/a.jpg",
      "modified_master/1/a.tif", "modified_master/1/b.tif",
      "modified_master/10/a.tif", "modified_master/2/a.tif",
      "preservation_master/a.tif", "preservation_master/b.tif",
      "preservation_master/sub/c.tif">>

IndexIn(table, s) == CHOOSE i \in 1..Len(table) : table[i] = s

TagRank(tag) == IndexIn(TagOrder, tag)

TextRank(text) ==
    IF text \in Range(TextOrder) THEN IndexIn(TextOrder, text)
    ELSE IndexIn(TextOrder, DcmTexts)

\* the IP-relative path of a payload file
IPPath(rel) == "data/" \o rel

\* all IP-relative paths share the first segment, so they are ordered as
\* their payload-relative parts are
NameRank(s) ==
    IF s \in Range(NameOrder) THEN IndexIn(NameOrder, s)
    ELSE IndexIn(NameOrder, CHOOSE r \in Range(NameOrder) : IPPath(r) = s)

\* tuple comparison k1 < k2 of two tuples of integers of the same length
RECURSIVE TupleLess(_, _)
TupleLess(k1, k2) ==
    IF k1 = <<>> THEN FALSE
    ELSE IF Head(k1) # Head(k2) THEN Head(k1) < Head(k2)
    ELSE TupleLess(Tail(k1), Tail(k2))

RECURSIVE InsertKeyed(_, _)
\* x inserted into the sorted sequence s behind every element not greater
InsertKeyed(s, x) ==
    IF s = <<>> THEN <<x>>
    ELSE IF TupleLess(x.key, Head(s).key) THEN <<x>> \o s
    ELSE <<Head(s)>> \o InsertKeyed(Tail(s), x)

RECURSIVE SortKeyed(_)
\* sorted(...) on a sequence of [key, val]: stable, ascending by key
SortKeyed(s) ==
    IF s = <<>> THEN <<>>
    ELSE InsertKeyed(SortKeyed(SubSeq(s, 1, Len(s) - 1)), s[Len(s)])

Vals(s) == [i \in 1..Len(s) |-> s[i].val]

\* sorted(names) for a list of paths or representation names
SortedNames(names) ==
    Vals(SortKeyed([i \in 1..Len(names) |->
                       [key |-> <<NameRank(names[i])>>, val |-> names[i]]]))

-----------------------------------------------------------------------------
(* IECompiler: descriptive section *)

IE_TAG == "ie.xml Compiler"

IE_BAG_INFO_DC_MAP ==
    << <<"DC-Terms-Identifier", "dcterms:identifier">>,
       <<"DC-Creator", "dc:creator">>,
       <<"DC-Title", "dc:title">>,
       <<"DC-Rights", "dc:rights">>,
       <<"DC-Terms-Rights", "dcterms:rights">>,
       <<"DC-Terms-License", "dcterms:license">>,
       <<"DC-Terms-Access-Rights", "dcterms:accessRights">>,
       <<"Embargo-Enddate", "dcterms:available">>,
       <<"DC-Terms-Rights-Holder", "dcterms:rightsHolder">> >>

DMD_DC_RECORD_ORDER ==
    <<"dcterms:identifier", "dc:creator", "dc:title", "dc:rights",
      "dcterms:rights", "dcterms:license", "dcterms:accessRights",
      "dcterms:available", "dcterms:rightsHolder">>

RECURSIVE JoinRepr(_)
\* the items of a list as str() prints them: 'a', 'b'
JoinRepr(xs) ==
    IF xs = <<>> THEN ""
    ELSE "'" \o Head(xs) \o "'"
         \o (IF Len(xs) > 1 THEN ", " ELSE "") \o JoinRepr(Tail(xs))

\* what str.format inserts for a baginfo value
PyStr(value) ==
    IF IsList(value) THEN "[" \o JoinRepr(value.list) \o "]" ELSE value.str

DCTERMS_IDENTIFIER_KEYS ==
    <<"Source-Organization", "Origin-System-Identifier", "External-Identifier">>

\* _get_dcm_dcterms_identifier reading the keys with baginfo.get(key, ""):
\* a missing key is no KeyError
_get_dcm_dcterms_identifier_Get(baginfo) ==
    LET get(k) == IF HasKey(baginfo, k) THEN PyStr(Get(baginfo, k)) ELSE ""
    IN [value |-> "dcm:" \o get("Source-Organization") \o "@"
                  \o get("Origin-System-Identifier") \o "@"
                  \o get("External-Identifier")]

\* IECompiler._get_dcm_dcterms_identifier: the identifier, or the KeyError of
\* the first key that baginfo lacks
_get_dcm_dcterms_identifier(baginfo) ==
    LET missing == {i \in 1..Len(DCTERMS_IDENTIFIER_KEYS) :
                       ~HasKey(baginfo, DCTERMS_IDENTIFIER_KEYS[i])}
    IN IF missing # {}
       THEN [raised |-> "KeyError",
             key |-> DCTERMS_IDENTIFIER_KEYS[
                         CHOOSE i \in missing : \A j \in missing : i <= j]]
       ELSE [value |-> "dcm:" \o PyStr(Get(baginfo, "Source-Organization"))
                       \o "@"
                       \o PyStr(Get(baginfo, "Origin-System-Identifier"))
                       \o "@" \o PyStr(Get(baginfo, "External-Identifier"))]

\* IECompiler._get_mdwrap_base; child is a sequence of at most one element
_get_mdwrap_base(child, attrib) ==
    Element("mets:mdWrap", attrib, <<>>, NoneStr,
            <<Element("mets:xmlData", <<>>, <<>>, NoneStr, child)>>)

\* the sort key of compile_dmdsec
DmdSortKey(x) ==
    << IF x.tag \in Range(DMD_DC_RECORD_ORDER)
       THEN IndexIn(DMD_DC_RECORD_ORDER, x.tag) - 1
       ELSE Len(DMD_DC_RECORD_ORDER),
       TagRank(x.tag),
       TextRank(IF x.text = NoneStr THEN "" ELSE x.text) >>

\* SortRecord without the sort: the record in the order of insertion
SortRecord_Unsorted(children) == children

\* dc_record[:] = sorted(list(dc_record), key=...)
SortRecord(children) ==
    Vals(SortKeyed([i \in 1..Len(children) |->
                       [key |-> DmdSortKey(children[i]), val |-> children[i]]]))

\* the elements of _from_baginfo as (tag, text) pairs
FromBaginfo(baginfo) ==
    LET added == MapChildren(baginfo, IE_BAG_INFO_DC_MAP)
    IN {<<added[i].tag, added[i].text>> : i \in 1..Len(added)}

\* MovedFromDcXml without the test for duplicates: every child is appended
MovedFromDcXml_All(baginfo, dc_xml) ==
    IF dc_xml = None THEN <<>> ELSE dc_xml.root.children

\* the children of dc.xml's root that the loop appends to dc_record; lxml's
\* append moves an element from its former parent to the new one
MovedFromDcXml(baginfo, dc_xml) ==
    IF dc_xml = None THEN <<>>
    ELSE SelectSeq(dc_xml.root.children,
                   LAMBDA e : <<e.tag, e.text>> \notin FromBaginfo(baginfo))

\* dc.xml as the loop leaves it: the moved children are gone from its root
DcXmlAfter(baginfo, dc_xml) ==
    IF dc_xml = None THEN None
    ELSE [root |-> [dc_xml.root EXCEPT !.children =
            SelectSeq(dc_xml.root.children,
                      LAMBDA e : <<e.tag, e.text>> \in FromBaginfo(baginfo))]]

DmdSec(children) ==
    Element("mets:dmdSec", << <<"ID", "ie-dmd">> >>, <<>>, NoneStr, children)

\* IECompiler.compile_dmdsec: the returned element, the entries logged and
\* dc_xml after the call
compile_dmdsec(baginfo, dc_xml) ==
    LET id == _get_dcm_dcterms_identifier(baginfo)
    IN IF IsRaised(id)
       THEN [elem |-> DmdSec(<<>>),
             logged |-> <<LogEntry(ERROR, IE_TAG,
                            "Missing required metadata in 'bag-info.txt': ",
                            id.key)>>,
             dc_xml |-> dc_xml]
       ELSE [elem |-> DmdSec(<<_get_mdwrap_base(
                 <<Element("dc:record", <<>>, <<>>, NoneStr,
                     SortRecord(<<Leaf("dcterms:identifier", id.value)>>
                                \o MapChildren(baginfo, IE_BAG_INFO_DC_MAP)
                                \o MovedFromDcXml(baginfo, dc_xml)))>>,
                 << <<"MDTYPE", "DC">> >>)>>),
             logged |-> <<>>,
             dc_xml |-> DcXmlAfter(baginfo, dc_xml)]

-----------------------------------------------------------------------------
(* IECompiler: IE-level administrative section *)

DNX_NSMAP == <<"dnx">>

Dnx(children) == Element("dnx", <<>>, DNX_NSMAP, NoneStr, children)

DnxKey(id, text) == Element("key", << <<"id", id>> >>, <<>>, text, <<>>)

DnxRecord(keys) == Element("record", <<>>, <<>>, NoneStr, keys)

DnxSection(id, records) ==
    Element("section", << <<"id", id>> >>, <<>>, NoneStr, records)

DnxWrap(dnx) ==
    _get_mdwrap_base(<<dnx>>, << <<"MDTYPE", "OTHER">>, <<"OTHERMDTYPE", "dnx">> >>)

\* the section 'preservationLevel' of compile_ie_amdsec_techmd
PreservationLevelSection(baginfo) ==
    IF HasKey(baginfo, "Preservation-Level")
    THEN <<DnxSection("preservationLevel",
             <<DnxRecord(<<DnxKey("preservationLevelType",
                 Get(baginfo, "Preservation-Level").str)>>)>>)>>
    ELSE <<>>

\* the section 'significantProperties' of compile_ie_amdsec_techmd
SignificantPropertiesSection(significant_properties) ==
    IF significant_properties # None
    THEN <<DnxSection("significantProperties",
             [i \in 1..Len(significant_properties.items) |->
                DnxRecord(<<DnxKey("significantPropertiesType",
                                   significant_properties.items[i][1]),
                            DnxKey("significantPropertiesValue",
                                   significant_properties.items[i][2])>>)])>>
    ELSE <<>>

\* IECompiler.compile_ie_amdsec_techmd; lxml refuses a list as an element's
\* text with a TypeError
compile_ie_amdsec_techmd(baginfo, significant_properties) ==
    IF HasKey(baginfo, "Preservation-Level")
       /\ IsList(Get(baginfo, "Preservation-Level"))
    THEN Raised("TypeError")
    ELSE Element("mets:techMD", << <<"ID", "ie-amd-tech">> >>, <<>>, NoneStr,
           <<DnxWrap(Dnx(PreservationLevelSection(baginfo)
                         \o SignificantPropertiesSection(
                                significant_properties)))>>)

\* IECompiler.compile_ie_amdsec_rightsmd
compile_ie_amdsec_rightsmd ==
    Element("mets:rightsMD", << <<"ID", "ie-amd-rights">> >>, <<>>, NoneStr,
            <<DnxWrap(Dnx(<<DnxSection("accessRightsPolicy", <<>>)>>))>>)

\* IECompiler.compile_ie_amdsec_sourcemd; an lxml _ElementTree is truthy, and
\* getroot() keeps returning the element the tree was parsed with
compile_ie_amdsec_sourcemd(source_metadata) ==
    Element("mets:sourceMD", << <<"ID", "ie-amd-source-OTHER">> >>, <<>>,
            NoneStr,
            <<_get_mdwrap_base(
                IF source_metadata # None THEN <<source_metadata.root>>
                ELSE <<>>,
                << <<"MDTYPE", "OTHER">>, <<"OTHERMDTYPE", "Text">> >>)>>)

\* IECompiler.compile_ie_amdsec_digiprovmd
compile_ie_amdsec_digiprovmd ==
    Element("mets:digiprovMD", << <<"ID", "ie-amd-digiprov">> >>, <<>>,
            NoneStr, <<DnxWrap(Dnx(<<>>))>>)

\* compile_ie_amdsec that emits the source part whether or not a
\* source-metadata document was supplied
compile_ie_amdsec_AlwaysSource(baginfo, source_metadata, significant_properties) ==
    LET techmd == compile_ie_amdsec_techmd(baginfo, significant_properties)
    IN IF IsRaised(techmd) THEN techmd
       ELSE Element("mets:amdSec", << <<"ID", "ie-amd">> >>, <<>>, NoneStr,
              <<techmd, compile_ie_amdsec_rightsmd,
                compile_ie_amdsec_sourcemd(source_metadata),
                compile_ie_amdsec_digiprovmd>>)

\* IECompiler.compile_ie_amdsec
compile_ie_amdsec(baginfo, source_metadata, significant_properties) ==
    LET techmd == compile_ie_amdsec_techmd(baginfo, significant_properties)
    IN IF IsRaised(techmd) THEN techmd
       ELSE Element("mets:amdSec", << <<"ID", "ie-amd">> >>, <<>>, NoneStr,
              <<techmd, compile_ie_amdsec_rightsmd>>
              \o (IF source_metadata # None
                  THEN <<compile_ie_amdsec_sourcemd(source_metadata)>>
                  ELSE <<>>)
              \o <<compile_ie_amdsec_digiprovmd>>)

-----------------------------------------------------------------------------
(* IECompiler: representations and files *)

\* str.upper on the names of checksum algorithms
UpperTable ==
    << <<"md5", "MD5">>, <<"sha256", "SHA256">>, <<"sha512", "SHA512">> >>

Upper(k) == UpperTable[CHOOSE i \in 1..Len(UpperTable) : UpperTable[i][1] = k][2]

\* a dict comprehension over pairs: a repeated key keeps its first place and
\* takes its last value
DictFromPairs(pairs) ==
    LET first == {i \in 1..Len(pairs) :
                     \A j \in 1..(i - 1) : pairs[j][1] # pairs[i][1]}
        last(i) == CHOOSE j \in 1..Len(pairs) :
                      /\ pairs[j][1] = pairs[i][1]
                      /\ \A l \in 1..Len(pairs) :
                            pairs[l][1] = pairs[i][1] => l <= j
        kept == SelectSeq([i \in 1..Len(pairs) |-> i], LAMBDA i : i \in first)
    IN Dict([n \in 1..Len(kept) |->
                <<pairs[kept[n]][1], pairs[last(kept[n])][2]>>])

File(index, href, checksums) ==
    [index |-> index, href |-> href, loctype |-> "URL", checksums |-> checksums]

Representation(index, preservation_type, files) ==
    [index |-> index, preservation_type |-> preservation_type,
     usage_type |-> "VIEW", files |-> files]

\* {k.upper(): v[file] for k, v in manifests.items()}: v[file] is a KeyError
\* when the manifest of k does not list the file
Checksums(file, manifests) ==
    IF \E i \in 1..Len(manifests.items) : ~HasKey(manifests.items[i][2], file)
    THEN Raised("KeyError")
    ELSE DictFromPairs([i \in 1..Len(manifests.items) |->
                           <<Upper(manifests.items[i][1]),
                             Get(manifests.items[i][2], file)>>])

\* Files without sorted(): the File objects in the order of the listing
Files_ListingOrder(paths, manifests) ==
    IF \E i \in 1..Len(paths) : IsRaised(Checksums(paths[i], manifests))
    THEN Raised("KeyError")
    ELSE List([i \in 1..Len(paths) |->
                  File(i, paths[i], Checksums(paths[i], manifests))])

\* the list comprehension of File objects over sorted(paths): the list, or
\* the KeyError it ends with
Files(paths, manifests) ==
    LET sorted == SortedNames(paths)
    IN IF \E i \in 1..Len(sorted) : IsRaised(Checksums(sorted[i], manifests))
       THEN Raised("KeyError")
       ELSE List([i \in 1..Len(sorted) |->
                     File(i, sorted[i], Checksums(sorted[i], manifests))])

\* f"_{int(rep_id):02d}" if rep_id > 1 else ""
TypeSuffix(rep_id) ==
    IF rep_id > 1
    THEN "_" \o (IF rep_id < 10 THEN "0" ELSE "") \o ToString(rep_id)
    ELSE ""

\* CategoryReps without sorted(): the representations in the order of the
\* dict's keys
CategoryReps_Unsorted(payload_files, manifests, category, rep_name, counter) ==
    IF ~HasKey(payload_files, category) THEN <<>>
    ELSE LET reps == KeyList(Get(payload_files, category))
         IN [rep_id \in 1..Len(reps) |->
               Representation(
                   counter + rep_id,
                   rep_name \o TypeSuffix(rep_id),
                   Files(Get(Get(payload_files, category), reps[rep_id]).list,
                         manifests))]

\* the representations appended for one of the categories 'modified_master'
\* and 'derivative_copy'; counter is the number of values already drawn
\* from count(1)
CategoryReps(payload_files, manifests, category, rep_name, counter) ==
    IF ~HasKey(payload_files, category) THEN <<>>
    ELSE LET reps == SortedNames(KeyList(Get(payload_files, category)))
         IN [rep_id \in 1..Len(reps) |->
               Representation(
                   counter + rep_id,
                   rep_name \o TypeSuffix(rep_id),
                   Files(Get(Get(payload_files, category), reps[rep_id]).list,
                         manifests))]

\* the representation appended for 'preservation_master'
MasterReps(payload_files, manifests) ==
    IF HasKey(payload_files, "preservation_master")
    THEN <<Representation(
               1, "PRESERVATION_MASTER",
               Files(Get(payload_files, "preservation_master").list,
                     manifests))>>
    ELSE <<>>

\* IECompiler._generate_representation_info: the list of representations, or
\* the KeyError of a file that a manifest does not list
_generate_representation_info(payload_files, manifests) ==
    LET pm == MasterReps(payload_files, manifests)
        mm == CategoryReps(payload_files, manifests, "modified_master",
                           "MODIFIED_MASTER", Len(pm))
        dc == CategoryReps(payload_files, manifests, "derivative_copy",
                           "DERIVATIVE_COPY", Len(pm) + Len(mm))
        rep_list == pm \o mm \o dc
    IN IF \E i \in 1..Len(rep_list) : IsRaised(rep_list[i].files)
       THEN Raised("KeyError")
       ELSE List([i \in 1..Len(rep_list) |->
                     [rep_list[i] EXCEPT !.files = @.list]])

-----------------------------------------------------------------------------
(* IECompiler: technical sections, file inventory, _compile *)

\* str(Path(href).relative_to(Path(href).parts[0]))
RelativeToRoot(href) == CHOOSE r \in Range(NameOrder) : IPPath(r) = href

RepId(representation) == "rep" \o ToString(representation.index)

\* FileId without the index of the representation
FileId_FileOnly(representation, file) == "fid" \o ToString(file.index)

FileId(representation, file) ==
    "fid" \o ToString(representation.index) \o "-" \o ToString(file.index)

TechAmdSec(id, dnx) ==
    Element("mets:amdSec", << <<"ID", id \o "-amd">> >>, <<>>, NoneStr,
      <<Element("mets:techMD", << <<"ID", id \o "-amd-tech">> >>, <<>>,
                NoneStr, <<DnxWrap(dnx)>>)>>)

\* IECompiler.compile_rep_amdsecs
compile_rep_amdsecs(reps) ==
    [i \in 1..Len(reps) |->
        TechAmdSec(RepId(reps[i]),
          Dnx(<<DnxSection("generalRepCharacteristics",
                 <<DnxRecord(<<DnxKey("preservationType",
                                      reps[i].preservation_type),
                               DnxKey("usageType", reps[i].usage_type)>>)>>)>>))]

FixityRecords(checksums) ==
    [i \in 1..Len(checksums.items) |->
        DnxRecord(<<DnxKey("fixityType", checksums.items[i][1]),
                    DnxKey("fixityValue", checksums.items[i][2])>>)]

\* compile_file_amdsecs that leaves out the files without checksums
compile_file_amdsecs_SkipEmpty(reps) ==
    FlattenSeq([i \in 1..Len(reps) |->
        LET files == SelectSeq(reps[i].files,
                               LAMBDA f : f.checksums.items # <<>>)
        IN [j \in 1..Len(files) |->
               TechAmdSec(FileId(reps[i], files[j]),
                 Dnx(<<DnxSection("fileFixity",
                         FixityRecords(files[j].checksums))>>))]])

\* IECompiler.compile_file_amdsecs
compile_file_amdsecs(reps) ==
    FlattenSeq([i \in 1..Len(reps) |->
        [j \in 1..Len(reps[i].files) |->
            TechAmdSec(FileId(reps[i], reps[i].files[j]),
              Dnx(<<DnxSection("fileFixity",
                      FixityRecords(reps[i].files[j].checksums))>>))]])

FLocat(file) ==
    Element("mets:FLocat",
            << <<"LOCTYPE", file.loctype>>,
               <<"xlink:href", RelativeToRoot(file.href)>> >>,
            XMLNS_to_dict({"xlink"}), NoneStr, <<>>)

\* IECompiler.compile_filesec
compile_filesec(reps) ==
    Element("mets:fileSec", <<>>, <<>>, NoneStr,
      [i \in 1..Len(reps) |->
        Element("mets:fileGrp",
                << <<"USE", reps[i].usage_type>>,
                   <<"ID", RepId(reps[i])>>,
                   <<"ADMID", RepId(reps[i]) \o "-amd">> >>,
                <<>>, NoneStr,
          [j \in 1..Len(reps[i].files) |->
            Element("mets:file",
                    << <<"ID", FileId(reps[i], reps[i].files[j])>>,
                       <<"ADMID", FileId(reps[i], reps[i].files[j]) \o "-amd">> >>,
                    <<>>, NoneStr, <<FLocat(reps[i].files[j])>>)])])

IE_Root(children) ==
    Element("mets:mets", <<>>, XMLNS_to_dict({"mets", "dc", "dcterms", "oai"}),
            NoneStr, children)

\* ip.manifests or {}
ManifestsOrEmpty(manifests) == IF manifests = None THEN Dict(<<>>) ELSE manifests

\* the sections of _compile put together: dmd is what compile_dmdsec
\* returned, amd what compile_ie_amdsec did, reps what
\* _generate_representation_info did; an exception ends the call
IE_assemble(dmd, amd, reps) ==
    [doc |-> IF IsRaised(amd) THEN amd
             ELSE IF IsRaised(reps) THEN reps
             ELSE IE_Root(<<dmd.elem, amd>>
                          \o compile_rep_amdsecs(reps.list)
                          \o compile_file_amdsecs(reps.list)
                          \o <<compile_filesec(reps.list)>>),
     log |-> Logger \o dmd.logged,
     dmdsec |-> dmd.elem,
     representations |-> IF IsRaised(amd) THEN None ELSE reps,
     dc_xml |-> dmd.dc_xml]

\* IECompiler._compile: the returned element (or the exception that ends the
\* call), the log after the call, the descriptive section and the
\* representations the call built (None when it did not get there), and
\* ip.dc_xml after the call
IE_compile(ip_) ==
    IF ip_.baginfo = None
    THEN [doc |-> IE_Root(<<>>),
          log |-> <<LogEntry(ERROR, IE_TAG,
                             "Missing 'bag-info.txt' metadata in target.",
                             NoneStr)>>,
          dmdsec |-> None, representations |-> None, dc_xml |-> ip_.dc_xml]
    ELSE IE_assemble(
             compile_dmdsec(ip_.baginfo, ip_.dc_xml),
             compile_ie_amdsec(ip_.baginfo, ip_.source_metadata,
                               ip_.significant_properties),
             _generate_representation_info(
                 ip_.payload_files, ManifestsOrEmpty(ip_.manifests)))

-----------------------------------------------------------------------------
(* The compilers' operations *)

\* DCCompiler.compile_as_string(ip) (compile returns the element dc_doc)
DCCompile ==
    \E r \in {DC_compile(ip)} :
       /\ dc_log' = ResetLog(dc_log) \o r.log
       /\ dc_doc' = r.doc
       /\ dc_str' = tostring(r.doc)
       /\ dc_prev' = dc_str
       /\ UNCHANGED <<ip, ie_log, ie_doc, ie_str, ie_prev, dmdsec,
                      representations, validatorVars, viewVars>>

\* IECompiler.compile_as_string(ip) (compile returns the element ie_doc)
IECompile ==
    \E r \in {IE_compile(ip)} :
       /\ ie_log' = ResetLog(ie_log) \o r.log
       /\ ie_doc' = r.doc
       /\ ie_str' = IF IsRaised(r.doc) THEN r.doc ELSE tostring(r.doc)
       /\ ie_prev' = ie_str
       /\ dmdsec' = r.dmdsec
       /\ representations' = r.representations
       /\ ip' = [ip EXCEPT !.dc_xml = r.dc_xml]
       /\ UNCHANGED <<dc_log, dc_doc, dc_str, dc_prev, validatorVars, viewVars>>

NextCompile == DCCompile \/ IECompile

-----------------------------------------------------------------------------
(* Input Models *)

\* the dicts of at most maxLen keys, in every key order
OrderedDicts(keys, values, maxLen) ==
    {Dict(p) : p \in {q \in UNION {[1..n -> keys \X values] : n \in 0..maxLen} :
                         DistinctKeys(q)}}

\* payload_files of an IP without payload, as IP._get_payload_files returns it
NoPayload == Dict(<< <<"preservation_master", List(<<>>)>> >>)

InputModel(baginfo, manifests, payload_files, dc_xml, source_metadata, significant_properties) ==
    [baginfo |-> baginfo, manifests |-> manifests,
     payload_files |-> payload_files, dc_xml |-> dc_xml,
     source_metadata |-> source_metadata,
     significant_properties |-> significant_properties]

BaginfoValues == {Str("a"), List(<<"y", "b">>)}

\* the keys of DCCompiler.BAG_INFO_DC_MAP, Source-Organization and a key
\* that no table has
FreeOrderKeys ==
    {"DC-Title", "DC-Terms-Identifier", "Origin-System-Identifier",
     "External-Identifier", "Source-Organization", "Bagging-Date"}

\* IPs that differ in bag-info.txt only: absent, or any keys in any order
BaginfoInputs ==
    {InputModel(b, None, NoPayload, None, None, None) :
        b \in {None} \cup OrderedDicts(FreeOrderKeys, BaginfoValues,
                                       MaxBaginfoLen)}

\* the state after the construction of the components, before any call
InitComponents ==
    /\ dc_log = Logger
    /\ dc_doc = None
    /\ dc_str = None
    /\ dc_prev = None
    /\ ie_log = Logger
    /\ ie_doc = None
    /\ ie_str = None
    /\ ie_prev = None
    /\ dmdsec = None
    /\ representations = None
    /\ validator = None
    /\ ctor_args = None
    /\ load_calls = <<>>
    /\ doc = None
    /\ vlog = None
    /\ valid = None
    /\ config = None
    /\ loadable = {}
    /\ view = None
    /\ mv = None
    /\ stderr = <<>>
    /\ events = <<>>
    /\ builder_log = Logger
    /\ sip = None
    /\ report = None
    /\ job_calls = <<>>
    /\ build_call = None
    /\ jobs = <<>>

InitDC == ip \in BaginfoInputs /\ InitComponents

\* the compilers on IPs that differ in bag-info.txt
SpecDC == InitDC /\ [][NextCompile]_vars

-----------------------------------------------------------------------------
(* IPs that differ in bag-info.txt, dc.xml and source_metadata.xml *)

IdentifierKeys ==
    << <<"Source-Organization", Str("src")>>,
       <<"Origin-System-Identifier", Str("sys")>>,
       <<"External-Identifier", Str("ext")>> >>

\* the pairs of a sequence that is cut at the places of a set
Without(pairs, places) ==
    SelectSeq(pairs, LAMBDA q : \A i \in places : pairs[i] # q)

\* an optional key: absent, or with one of the values
Optional(key, values) == {<<>>} \cup {<< <<key, v>> >> : v \in values}

\* bag-info.txt with all keys of the composite identifier, and further keys
CompleteBaginfos ==
    {Dict(IdentifierKeys \o t \o i \o c) :
        t \in Optional("DC-Title", {Str("a"), List(<<"b", "a">>)}),
        i \in Optional("DC-Terms-Identifier", {Str("x"), Str("a")}),
        c \in Optional("DC-Creator", {Str("b")})}

\* bag-info.txt that lacks keys of the composite identifier
IncompleteBaginfos ==
    {Dict(Without(IdentifierKeys, m) \o << <<"DC-Title", Str("a")>> >>) :
        m \in (SUBSET (1..Len(IdentifierKeys))) \ {{}}}

DcXmlElements ==
    {Leaf("dc:title", "a"), Leaf("dc:title", "b"), Leaf("dc:subject", NoneStr),
     Leaf("dcterms:identifier", "a"), Leaf("dcterms:identifier", "y")}

\* a parsed XML document: the tree and the root that getroot() returns
ElementTree(root) == [root |-> root]

DcXmlTrees ==
    {ElementTree(Element("oai_dc:dc", <<>>, <<"dc", "dcterms">>, NoneStr, ch)) :
        ch \in UNION {[1..n -> DcXmlElements] : n \in 0..MaxDcXmlLen}}

SourceMetadataTree ==
    ElementTree(Element("oai:record", <<>>, <<"oai">>, NoneStr,
                        <<Leaf("oai:metadata", "a")>>))

DmdInputs ==
    {InputModel(b, None, NoPayload, d, s, None) :
        b \in {None} \cup CompleteBaginfos \cup IncompleteBaginfos,
        d \in {None} \cup DcXmlTrees,
        s \in {None, SourceMetadataTree}}

InitDmd == ip \in DmdInputs /\ InitComponents

\* the compilers on IPs that differ in bag-info.txt, dc.xml and
\* source_metadata.xml
SpecDmd == InitDmd /\ [][NextCompile]_vars

-----------------------------------------------------------------------------
(* IPs that differ in the payload and in the manifests *)

CompleteBaginfo == Dict(IdentifierKeys)

\* the lists of pairwise different elements of a set, of at most maxLen
DistinctLists(S, maxLen) ==
    {q \in UNION {[1..n -> S] : n \in 0..maxLen} :
        \A i, j \in 1..Len(q) : q[i] = q[j] => i = j}

MasterFiles ==
    {IPPath("preservation_master/a.tif"), IPPath("preservation_master/b.tif"),
     IPPath("preservation_master/sub/c.tif")}

\* the files of a representation, in the order the directory listing gave
RepFiles(category, rep) ==
    IF category = "modified_master"
    THEN IF rep = "1"
         THEN List(<<IPPath("modified_master/1/b.tif"),
                     IPPath("modified_master/1/a.tif")>>)
         ELSE List(<<IPPath("modified_master/" \o rep \o "/a.tif")>>)
    ELSE IF rep = "1"
         THEN List(<<IPPath("derivative_copy/1/b.jpg"),
                     IPPath("derivative_copy/1/a.jpg")>>)
         ELSE List(<<IPPath("derivative_copy/" \o rep \o "/a.jpg")>>)

CategoryDict(category, reps) ==
    Dict([i \in 1..Len(reps) |-> <<reps[i], RepFiles(category, reps[i])>>])

PayloadFiles ==
    {Dict(pm \o mm \o dc) :
        pm \in {<<>>} \cup {<< <<"preservation_master", List(fs)>> >> :
                               fs \in DistinctLists(MasterFiles, MaxFiles)},
        mm \in {<<>>} \cup {<< <<"modified_master",
                                 CategoryDict("modified_master", reps)>> >> :
                               reps \in DistinctLists({"1", "2", "10"}, MaxReps)},
        dc \in {<<>>,
                << <<"derivative_copy",
                     CategoryDict("derivative_copy", <<"1">>)>> >>,
                << <<"derivative_copy",
                     CategoryDict("derivative_copy", <<"2", "1">>)>> >>}}

AllPaths == {IPPath(NameOrder[i]) : i \in 4..Len(NameOrder)}

\* the lines of a manifest file for the paths, as IP._load_manifests reads them
Manifest(alg, paths) ==
    LET listed == SelectSeq([i \in 1..Len(NameOrder) |-> IPPath(NameOrder[i])],
                            LAMBDA q : q \in paths)
    IN Dict([i \in 1..Len(listed) |-> <<listed[i], alg \o ":" \o listed[i]>>])

\* manifests that list every file, that lack files and that list none
ManifestsChoices ==
    {None, Dict(<<>>),
     Dict(<< <<"md5", Manifest("md5", AllPaths)>> >>),
     Dict(<< <<"sha256", Manifest("sha256", AllPaths)>>,
             <<"md5", Manifest("md5", AllPaths)>> >>),
     Dict(<< <<"sha256", Manifest("sha256", AllPaths)>>,
             <<"md5", Manifest("md5", AllPaths
                                 \ {IPPath("preservation_master/a.tif"),
                                    IPPath("modified_master/2/a.tif")})>> >>),
     Dict(<< <<"md5", Manifest("md5", {})>> >>)}

RepInputs ==
    {InputModel(CompleteBaginfo, m, p, None, None, None) :
        m \in ManifestsChoices, p \in PayloadFiles}

InitRep == ip \in RepInputs /\ InitComponents

\* the compilers on IPs that differ in the payload and in the manifests
SpecRep == InitRep /\ [][NextCompile]_vars

-----------------------------------------------------------------------------
(* XMLValidator of components/validator.py.  A str is a sequence of        *)
(* one-character strings here, so that slicing and stripping are computed. *)

\* N of _generate_name
N == 50

Whitespace == {" ", "\n", "\t"}

RECURSIVE LStrip(_)
LStrip(s) ==
    IF s = <<>> \/ Head(s) \notin Whitespace THEN s ELSE LStrip(Tail(s))

RECURSIVE RStrip(_)
RStrip(s) ==
    IF s = <<>> \/ s[Len(s)] \notin Whitespace
    THEN s ELSE RStrip(SubSeq(s, 1, Len(s) - 1))

\* str.strip()
Strip(s) == RStrip(LStrip(s))

\* str.split("\n")
RECURSIVE SplitLines(_)
SplitLines(s) ==
    IF \A i \in 1..Len(s) : s[i] # "\n" THEN <<s>>
    ELSE LET i == CHOOSE k \in 1..Len(s) :
                      s[k] = "\n" /\ \A j \in 1..(k - 1) : s[j] # "\n"
         IN <<SubSeq(s, 1, i - 1)>> \o SplitLines(SubSeq(s, i + 1, Len(s)))

\* XMLValidator._flatten_multiline
_flatten_multiline(string) ==
    LET lines == SplitLines(string)
    IN FlattenSeq([i \in 1..Len(lines) |-> Strip(lines[i])])

\* XMLValidator._generate_name
_generate_name(base) ==
    LET _base == _flatten_multiline(base)
    IN SubSeq(_base, 1, IF Len(_base) < N THEN Len(_base) ELSE N)
         \o (IF Len(_base) < N THEN <<>> ELSE <<".", ".">>)

\* XMLValidator._load_xml_schema: schema_type(schema) succeeds when the
\* source can be loaded as a schema of that type
_load_xml_schema(schema_type, schema, loadable_as) ==
    IF schema_type \in loadable_as
    THEN [schema |-> [type |-> schema_type, source |-> schema],
          exc_info |-> None]
    ELSE [schema |-> None, exc_info |-> Raised("Exception")]

VALIDATOR_TAG == "XML Schema Validator"

\* the body of the ERROR entry of XMLValidator.__init__, without the name
\* and the exception it is formatted with
UNABLE_TO_LOAD == "Unable to load schema '{}' ({})."

\* a raised ValueError with its message, the message as a sequence of the
\* pieces it is put together from
ValueError(msg) == [raised |-> "ValueError", msg |-> msg]

\* the phrase make_validator looks for in the message of a ValueError
LOAD_MARKER == "Unable to load schema"

\* marker in str(exc_info), for a marker that is one of the message's pieces
Contains(msg, marker) == \E i \in 1..Len(msg) : msg[i] = marker

\* schema_name or schema, schema_name or self._generate_name(schema)
Or(schema_name, other) == IF schema_name = None THEN other ELSE schema_name.str

\* SchemaTypeFor with xmlschema's default for a version it does not know
SchemaTypeFor_Default(version) ==
    IF version = "1.0" THEN "XMLSchema10"
    ELSE IF version = "1.1" THEN "XMLSchema11"
    ELSE "XMLSchema"

\* the schema class XMLValidator.__init__ picks for the version; NoneStr for
\* a version that ends in the ValueError
SchemaTypeFor(version) ==
    IF version = NoneStr THEN "XMLSchema"
    ELSE IF version = "1.0" THEN "XMLSchema10"
    ELSE IF version = "1.1" THEN "XMLSchema11"
    ELSE NoneStr

\* the calls of _load_xml_schema that XMLValidator.__init__ makes
LoadCalls(version) ==
    IF SchemaTypeFor(version) = NoneStr THEN <<>>
    ELSE <<SchemaTypeFor(version)>>

\* XMLValidator.__init__: the instance, or the ValueError of an unknown version
XMLValidator_init(schema, version, schema_name, loadable_as) ==
    LET schema_type == SchemaTypeFor(version)
        loaded == _load_xml_schema(schema_type, schema, loadable_as)
    IN IF schema_type = NoneStr
       THEN ValueError(<<"Unknown XML schema version '", version, "'.">>)
       ELSE [schema |-> loaded.schema,
             log |-> IF loaded.exc_info # None
                     THEN <<LogEntry(ERROR, VALIDATOR_TAG, UNABLE_TO_LOAD,
                                     Or(schema_name, schema))>>
                     ELSE Logger,
             name |-> Or(schema_name, _generate_name(schema))]

\* a str of n characters
Chars(n) == [i \in 1..n |-> "x"]

\* schema sources: one line of N-1, N and N+1 characters, and two indented
\* lines
SchemaSources ==
    {Chars(N - 1), Chars(N), Chars(N + 1),
     <<" ", "a", " ", "\n", "\t", "b", "\n">>}

SchemaTypes == {"XMLSchema", "XMLSchema10", "XMLSchema11"}

\* what xmlschema can make of a source: XMLSchema is XMLSchema10
LoadableAs ==
    {ts \in SUBSET SchemaTypes : "XMLSchema" \in ts <=> "XMLSchema10" \in ts}

Versions == {NoneStr, "1.0", "1.1", "2.0", ""}

SchemaNames == {None, Str(<<"m", "e", "t", "s">>)}

\* XMLValidator(schema, version, schema_name)
XMLValidatorInit ==
    \E schema \in SchemaSources, version \in Versions,
       schema_name \in SchemaNames, loadable_as \in LoadableAs :
        /\ ctor_args' = [schema |-> schema, version |-> version,
                         schema_name |-> schema_name,
                         loadable_as |-> loadable_as]
        /\ validator' = XMLValidator_init(schema, version, schema_name,
                                          loadable_as)
        /\ load_calls' = LoadCalls(version)
        /\ doc' = None
        /\ vlog' = None
        /\ valid' = None
        /\ UNCHANGED <<compilerVars, viewVars>>

\* the most schema violations in one document
MaxViolations == 2

ERROR_FORMAT ==
    "{reason} ({name}: {message}; XPath: {xpath}; XSD: {xsd}; XML: {xml})."

INFO_FORMAT == "Validation of '{xml}' with schema '{schema}' returns {result}."

MALFORMED == "Malformed XML, unable to continue ({})."

\* the ERROR entry validate logs for an error that iter_errors yields
ViolationEntry(error) ==
    LogEntry(ERROR, VALIDATOR_TAG, ERROR_FORMAT,
             [reason |-> error.reason,
              xpath |-> IF error.path = NoneStr THEN "-" ELSE error.path,
              xsd |-> IF error.validator_tostring = None THEN <<"-">>
                      ELSE _flatten_multiline(error.validator_tostring.str)])

\* the entries of validate's try block: one per error that
\* self.schema.iter_errors(xml) yields, or the entry for the ParseError that
\* it raises for a document that is not well-formed
ErrorEntries(xml) ==
    IF xml.well_formed
    THEN [i \in 1..Len(xml.errors) |-> ViolationEntry(xml.errors[i])]
    ELSE <<LogEntry(ERROR, VALIDATOR_TAG, MALFORMED, NoneStr)>>

\* the INFO entry at the end of validate
InfoEntry(instance, xml, xml_name, log) ==
    LogEntry(INFO, VALIDATOR_TAG, INFO_FORMAT,
             [xml |-> Or(xml_name, _generate_name(xml.text)),
              schema |-> instance.name,
              result |-> IF Pick(log, ERROR) # <<>> THEN "INVALID"
                         ELSE "VALID"])

\* validate that returns at the ParseError, before the INFO entry
validate_ReturnAtParseError(instance, xml, xml_name) ==
    IF instance.schema = None THEN Raised("AttributeError")
    ELSE IF ~xml.well_formed THEN [log |-> ErrorEntries(xml)]
    ELSE [log |-> ErrorEntries(xml)
                  \o <<InfoEntry(instance, xml, xml_name, ErrorEntries(xml))>>]

\* XMLValidator.validate: the returned Logger, or the AttributeError of
\* self.schema.iter_errors for an instance whose schema is None
validate(instance, xml, xml_name) ==
    IF instance.schema = None THEN Raised("AttributeError")
    ELSE [log |-> ErrorEntries(xml)
                  \o <<InfoEntry(instance, xml, xml_name, ErrorEntries(xml))>>]

\* a returned bool
Bool(b) == [bool |-> b]

\* XMLValidator.is_valid: self.schema.is_valid(xml), False for a ParseError,
\* or the AttributeError for an instance whose schema is None
is_valid(instance, xml) ==
    IF instance.schema = None THEN Raised("AttributeError")
    ELSE IF ~xml.well_formed THEN Bool(FALSE)
    ELSE Bool(xml.errors = <<>>)

\* an instance whose validate logs into the log of the instance
InstanceAfter_Logging(instance, xml) ==
    IF instance.schema = None THEN instance
    ELSE [instance EXCEPT !.log = @ \o ErrorEntries(xml)]

\* the instance after validate or is_valid: neither assigns an attribute of
\* self, and validate logs into a Logger of its own
InstanceAfter(instance, xml) == instance

\* the errors a schema can find: with and without a path, with and without
\* a validator that has tostring
SchemaErrors ==
    {[reason |-> "unexpected child", path |-> "/person",
      validator_tostring |-> Str(<<"<", "\n", " ", " ", "e", "\n", ">">>)],
     [reason |-> "not an integer", path |-> NoneStr,
      validator_tostring |-> None]}

\* a document as the schema sees it: not well-formed, or well-formed with
\* the violations that iter_errors yields for it
Document(text, well_formed, errors) ==
    [text |-> text, well_formed |-> well_formed, errors |-> errors]

Documents ==
    {Document(t, FALSE, <<>>) : t \in {Chars(3), <<"<", "a", "/", ">", "\n">>}}
    \cup {Document(t, TRUE, es) :
            t \in {Chars(3), <<"<", "a", "/", ">", "\n">>},
            es \in UNION {[1..n -> SchemaErrors] : n \in 0..MaxViolations}}

XmlNames == {None, Str(<<"i", "e">>)}

\* validator.validate(xml, xml_name) on the instance made last
Validate ==
    /\ validator # None
    /\ ~IsRaised(validator)
    /\ \E xml \in Documents, xml_name \in XmlNames :
         /\ doc' = xml
         /\ vlog' = validate(validator, xml, xml_name)
         /\ valid' = None
         /\ validator' = InstanceAfter(validator, xml)
    /\ UNCHANGED <<ctor_args, load_calls, compilerVars, viewVars>>

\* validator.is_valid(xml) on the instance made last
IsValid ==
    /\ validator # None
    /\ ~IsRaised(validator)
    /\ \E xml \in Documents :
         /\ doc' = xml
         /\ valid' = is_valid(validator, xml)
         /\ vlog' = None
         /\ validator' = InstanceAfter(validator, xml)
    /\ UNCHANGED <<ctor_args, load_calls, compilerVars, viewVars>>

NextValidator == XMLValidatorInit \/ Validate \/ IsValid

InitValidator ==
    /\ ip = InputModel(None, None, NoPayload, None, None, None)
    /\ InitComponents

\* the constructor of the validator on sources that load or do not load
SpecValidator == InitValidator /\ [][NextValidator]_vars

-----------------------------------------------------------------------------
(* BuildView: the validators made by __init__ (views/build.py).  The view   *)
(* takes XMLValidator from dcm_common.xml; a message is the sequence of the *)
(* pieces it is put together from.                                          *)

\* dcm_common.xml.XMLValidator(schema, version=..., schema_name=...): an
\* unrecognized version is a configuration error, a schema that cannot be
\* loaded is an error that carries the marker
Common_XMLValidator(schema, version, schema_name, loadable_) ==
    IF version \notin {NoneStr, "1.0", "1.1"}
    THEN ValueError(<<"Unknown XML schema version '", version, "'.">>)
    ELSE IF schema \notin loadable_
    THEN ValueError(<<LOAD_MARKER, " '", schema_name, "'.">>)
    ELSE [schema |-> schema, version |-> version, name |-> schema_name]

\* the call XMLValidator(schema, ...) in the trace of a BuildView(...) call
Constructs(schema) == <<"XMLValidator", schema>>

\* the call print(msg, file=sys.stderr) in that trace
Prints == <<"print", NoneStr>>

\* what make_validator returns, prints and calls
MakeValidatorResult(validator_, msg, stderr_, events_) ==
    [validator |-> validator_, msg |-> msg, stderr |-> stderr_,
     events |-> events_]

\* make_validator that tries the fallback after every failure of the primary
make_validator_AnyFailure(cfg, loadable_) ==
    LET primary == Common_XMLValidator(
                       cfg.VALIDATION_ROSETTA_METS_XSD,
                       cfg.VALIDATION_ROSETTA_METS_XML_SCHEMA_VERSION,
                       cfg.VALIDATION_ROSETTA_XSD_NAME, loadable_)
        msg == <<"WARNING",
                 ": Unable to initialize Rosetta METS-validator from ",
                 "'", cfg.VALIDATION_ROSETTA_METS_XSD, "': ">>
               \o (IF IsRaised(primary) THEN primary.msg ELSE <<>>)
               \o <<" Trying to load fallback..">>
        fallback == Common_XMLValidator(
                        cfg.VALIDATION_ROSETTA_METS_XSD_FALLBACK,
                        cfg.VALIDATION_ROSETTA_METS_XML_SCHEMA_VERSION_FALLBACK,
                        cfg.VALIDATION_ROSETTA_XSD_NAME_FALLBACK, loadable_)
        first == <<Constructs(cfg.VALIDATION_ROSETTA_METS_XSD)>>
        second == <<Prints,
                    Constructs(cfg.VALIDATION_ROSETTA_METS_XSD_FALLBACK)>>
    IN IF ~IsRaised(primary)
       THEN MakeValidatorResult(primary, <<>>, <<>>, first)
       ELSE IF cfg.VALIDATION_ROSETTA_METS_XSD_FALLBACK # NoneStr
       THEN IF ~IsRaised(fallback)
            THEN MakeValidatorResult(fallback, msg, <<msg>>, first \o second)
            ELSE MakeValidatorResult(None, primary.msg, <<msg>>,
                                     first \o second)
       ELSE MakeValidatorResult(None, primary.msg, <<>>, first)

\* BuildView.make_validator
make_validator(cfg, loadable_) ==
    LET primary == Common_XMLValidator(
                       cfg.VALIDATION_ROSETTA_METS_XSD,
                       cfg.VALIDATION_ROSETTA_METS_XML_SCHEMA_VERSION,
                       cfg.VALIDATION_ROSETTA_XSD_NAME, loadable_)
        msg == <<"WARNING",
                 ": Unable to initialize Rosetta METS-validator from ",
                 "'", cfg.VALIDATION_ROSETTA_METS_XSD, "': ">>
               \o (IF IsRaised(primary) THEN primary.msg ELSE <<>>)
               \o <<" Trying to load fallback..">>
        fallback == Common_XMLValidator(
                        cfg.VALIDATION_ROSETTA_METS_XSD_FALLBACK,
                        cfg.VALIDATION_ROSETTA_METS_XML_SCHEMA_VERSION_FALLBACK,
                        cfg.VALIDATION_ROSETTA_XSD_NAME_FALLBACK, loadable_)
        first == <<Constructs(cfg.VALIDATION_ROSETTA_METS_XSD)>>
        second == <<Prints,
                    Constructs(cfg.VALIDATION_ROSETTA_METS_XSD_FALLBACK)>>
    IN IF ~IsRaised(primary)
       THEN MakeValidatorResult(primary, <<>>, <<>>, first)
       ELSE IF /\ Contains(primary.msg, LOAD_MARKER)
               /\ cfg.VALIDATION_ROSETTA_METS_XSD_FALLBACK # NoneStr
       THEN IF ~IsRaised(fallback)
            THEN MakeValidatorResult(fallback, msg, <<msg>>, first \o second)
            ELSE MakeValidatorResult(None, primary.msg, <<msg>>,
                                     first \o second)
       ELSE MakeValidatorResult(None, primary.msg, <<>>, first)

\* a raised RuntimeError with its message
RuntimeError(msg) == [raised |-> "RuntimeError", msg |-> msg]

\* the attributes of a BuildView
View(rosetta_mets_validator, dcxml_validator) ==
    [rosetta_mets_validator |-> rosetta_mets_validator,
     dcxml_validator |-> dcxml_validator]

\* the outcome of BuildView.__init__ with what it printed and called
BuildViewResult(view_, mv_, stderr_, events_) ==
    [view |-> view_, mv |-> mv_, stderr |-> stderr_, events |-> events_]

\* BuildView.__init__ that goes on without a validator it could not make
BuildView_init_Skip(cfg, loadable_) ==
    LET made == make_validator(cfg, loadable_)
        mets == IF cfg.VALIDATION_ROSETTA_METS_ACTIVE
                THEN made ELSE MakeValidatorResult(None, <<>>, <<>>, <<>>)
        dcxml == Common_XMLValidator(cfg.VALIDATION_DCXML_XSD,
                                     cfg.VALIDATION_DCXML_XML_SCHEMA_VERSION,
                                     cfg.VALIDATION_DCXML_NAME, loadable_)
        mv_ == IF cfg.VALIDATION_ROSETTA_METS_ACTIVE
               THEN [validator |-> made.validator, msg |-> made.msg]
               ELSE None
    IN IF cfg.VALIDATION_DCXML_ACTIVE
       THEN BuildViewResult(
                View(mets.validator,
                     IF IsRaised(dcxml) THEN None ELSE dcxml),
                mv_, mets.stderr,
                mets.events \o <<Constructs(cfg.VALIDATION_DCXML_XSD)>>)
       ELSE BuildViewResult(View(mets.validator, None), mv_, mets.stderr,
                            mets.events)

\* BuildView.__init__, from the validators on
BuildView_init(cfg, loadable_) ==
    LET made == make_validator(cfg, loadable_)
        mets == IF cfg.VALIDATION_ROSETTA_METS_ACTIVE
                THEN made ELSE MakeValidatorResult(None, <<>>, <<>>, <<>>)
        dcxml == Common_XMLValidator(cfg.VALIDATION_DCXML_XSD,
                                     cfg.VALIDATION_DCXML_XML_SCHEMA_VERSION,
                                     cfg.VALIDATION_DCXML_NAME, loadable_)
        mv_ == IF cfg.VALIDATION_ROSETTA_METS_ACTIVE
               THEN [validator |-> made.validator, msg |-> made.msg]
               ELSE None
        fallback == cfg.VALIDATION_ROSETTA_METS_XSD_FALLBACK
    IN IF cfg.VALIDATION_ROSETTA_METS_ACTIVE /\ mets.validator = None
       THEN BuildViewResult(
                RuntimeError(
                    <<"Unable to initialize Rosetta METS-validator from ",
                      "'",
                      IF fallback \notin {NoneStr, ""}
                      THEN fallback ELSE cfg.VALIDATION_ROSETTA_METS_XSD,
                      "': ">>
                    \o mets.msg
                    \o <<" ", "Consider disabling option ",
                         "'VALIDATION_ROSETTA_METS_ACTIVE'">>
                    \o (IF fallback = NoneStr
                        THEN <<" or setting ",
                               "'VALIDATION_ROSETTA_METS_XSD_FALLBACK'">>
                        ELSE <<>>)
                    \o <<".">>),
                mv_, mets.stderr, mets.events)
       ELSE IF cfg.VALIDATION_DCXML_ACTIVE
       THEN BuildViewResult(
                IF IsRaised(dcxml)
                THEN RuntimeError(
                         <<"Unable to initialize dc.xml-validator from ",
                           "'", cfg.VALIDATION_DCXML_XSD, "': ",
                           "Consider disabling option ",
                           "'VALIDATION_DCXML_ACTIVE'.">>)
                ELSE View(mets.validator, dcxml),
                mv_, mets.stderr,
                mets.events \o <<Constructs(cfg.VALIDATION_DCXML_XSD)>>)
       ELSE BuildViewResult(View(mets.validator, None), mv_, mets.stderr,
                            mets.events)

METS_XSD == "mets_rosetta.xsd"

METS_XSD_FALLBACK == "mets_rosetta_fallback.xsd"

DCXML_XSD == "dc.xsd"

\* the configurations: each validation on or off, recognized and
\* unrecognized versions, with and without a fallback source
AppConfigs ==
    [VALIDATION_ROSETTA_METS_ACTIVE : BOOLEAN,
     VALIDATION_ROSETTA_METS_XSD : {METS_XSD},
     VALIDATION_ROSETTA_METS_XML_SCHEMA_VERSION : {"1.0", "1.1", "2.0"},
     VALIDATION_ROSETTA_XSD_NAME : {"Ex Libris, Rosetta METS v7.3"},
     VALIDATION_ROSETTA_METS_XSD_FALLBACK : {NoneStr, METS_XSD_FALLBACK},
     VALIDATION_ROSETTA_METS_XML_SCHEMA_VERSION_FALLBACK : {"1.1", "2.0"},
     VALIDATION_ROSETTA_XSD_NAME_FALLBACK : {"Rosetta METS (fallback)"},
     VALIDATION_DCXML_ACTIVE : BOOLEAN,
     VALIDATION_DCXML_XSD : {DCXML_XSD},
     VALIDATION_DCXML_XML_SCHEMA_VERSION : {"1.1", "2.0"},
     VALIDATION_DCXML_NAME : {"LZV.nrw, dc.xml schema"}]

\* BuildView(config) while the sources in reachable can be loaded; the view
\* gets compilers of its own, whose logs are empty
BuildViewInit ==
    \E cfg \in AppConfigs,
       reachable \in SUBSET {METS_XSD, METS_XSD_FALLBACK, DCXML_XSD} :
      \E r \in {BuildView_init(cfg, reachable)} :
        /\ config' = cfg
        /\ loadable' = reachable
        /\ dc_log' = Logger
        /\ ie_log' = Logger
        /\ view' = r.view
        /\ mv' = r.mv
        /\ stderr' = r.stderr
        /\ events' = r.events
        /\ builder_log' = Logger
        /\ sip' = None
        /\ report' = None
        /\ job_calls' = <<>>
        /\ build_call' = None
        /\ jobs' = <<>>
        /\ UNCHANGED <<ip, dc_doc, dc_str, dc_prev, ie_doc, ie_str, ie_prev,
                       dmdsec, representations, validatorVars>>

NextView == BuildViewInit

InitView ==
    /\ ip = InputModel(None, None, NoPayload, None, None, None)
    /\ InitComponents

\* the construction of the BuildView under every configuration
SpecView == InitView /\ [][NextView]_vars

-----------------------------------------------------------------------------
(* Claims about the compilers *)

\* the children of the DC record inside a descriptive section that has one
RecordChildren(sec) == sec.children[1].children[1].children[1].children

\* C1: calling compile_as_string twice in a row on the same Input Model
\* returns the same string, for the DCCompiler and for the IECompiler.
C1_Idempotent ==
    /\ dc_prev # None => dc_str = dc_prev
    /\ ie_prev # None => ie_str = ie_prev

\* the checksums that the manifests M record for the path p
RecordedChecksums(p, M) ==
    {<<Upper(M.items[i][1]), Get(M.items[i][2], p)>> :
        i \in {j \in 1..Len(M.items) : HasKey(M.items[j][2], p)}}

\* C2: the derivation completes for every manifests mapping, and the
\* checksums of every derived File are exactly the digests that the
\* manifests record for its path, under the upper-cased algorithm name.
C2_Checksums ==
    representations # None =>
        /\ ~IsRaised(representations)
        /\ \A i \in 1..Len(representations.list) :
             \A j \in 1..Len(representations.list[i].files) :
                LET f == representations.list[i].files[j]
                IN Range(f.checksums.items)
                     = RecordedChecksums(f.href, ManifestsOrEmpty(ip.manifests))

\* C3: DCCompiler.compile and IECompiler.compile never raise: every call
\* returns a document element.
C3_NeverRaises ==
    /\ dc_doc # None => ~IsRaised(dc_doc) /\ dc_doc.tag = "dc:record"
    /\ ie_doc # None => ~IsRaised(ie_doc) /\ ie_doc.tag = "mets:mets"

\* C7: with baginfo absent, each compiler returns its namespaced root
\* element without children, and its log holds exactly one ERROR entry.
C7_AbsentBaginfo ==
    ip.baginfo = None =>
        /\ dc_doc # None =>
             /\ dc_doc.tag = "dc:record"
             /\ Range(dc_doc.nsmap) = {"dc", "dcterms", "rosetta"}
             /\ dc_doc.children = <<>>
             /\ Len(Pick(dc_log, ERROR)) = 1
        /\ ie_doc # None =>
             /\ ~IsRaised(ie_doc)
             /\ ie_doc.tag = "mets:mets"
             /\ Range(ie_doc.nsmap) = {"mets", "dc", "dcterms", "oai"}
             /\ ie_doc.children = <<>>
             /\ Len(Pick(ie_log, ERROR)) = 1

C7_Witness ==
    /\ ip.baginfo = None
    /\ dc_doc # None
    /\ ie_doc # None
    /\ Len(dc_log) = 1
    /\ Len(ie_log) = 1

\* the texts of the children with the tag, in the order of the children
TextsOf(children, tag) ==
    LET with == SelectSeq(children, LAMBDA c : c.tag = tag)
    IN [i \in 1..Len(with) |-> with[i].text]

\* the values of a baginfo key: a bare string is one value
ValuesOf(baginfo, key) ==
    IF ~HasKey(baginfo, key) THEN <<>>
    ELSE IF IsList(Get(baginfo, key)) THEN Get(baginfo, key).list
    ELSE <<Get(baginfo, key).str>>

\* the place of a tag among the values of DCCompiler's table, 0 for no place
DCTablePlace(tag) ==
    IF tag = "dc:title" THEN 1
    ELSE IF tag = "dcterms:identifier" THEN 2
    ELSE IF tag = "rosetta:externalSystem" THEN 3
    ELSE IF tag = "rosetta:externalId" THEN 4
    ELSE 0

\* C8: for a present baginfo the children of the DC record are, for the
\* four table keys in table order, one child per value in list order with
\* the mapped tag; nothing else adds a child, and no ERROR is logged.
C8_DCChildren ==
    (ip.baginfo # None /\ dc_doc # None) =>
        LET ch == dc_doc.children
        IN /\ \A i \in 1..Len(ch) : DCTablePlace(ch[i].tag) # 0
           /\ \A i, j \in 1..Len(ch) :
                i < j => DCTablePlace(ch[i].tag) <= DCTablePlace(ch[j].tag)
           /\ TextsOf(ch, "dc:title") = ValuesOf(ip.baginfo, "DC-Title")
           /\ TextsOf(ch, "dcterms:identifier")
                = ValuesOf(ip.baginfo, "DC-Terms-Identifier")
           /\ TextsOf(ch, "rosetta:externalSystem")
                = ValuesOf(ip.baginfo, "Origin-System-Identifier")
           /\ TextsOf(ch, "rosetta:externalId")
                = ValuesOf(ip.baginfo, "External-Identifier")
           /\ Pick(dc_log, ERROR) = <<>>

\* a baginfo that lists External-Identifier before a list-valued DC-Title
\* and has a key outside the table
C8_Witness ==
    /\ ip.baginfo # None
    /\ dc_doc # None
    /\ Len(ip.baginfo.items) = 3
    /\ ip.baginfo.items[1][1] = "External-Identifier"
    /\ ip.baginfo.items[2] = <<"DC-Title", List(<<"y", "b">>)>>
    /\ ip.baginfo.items[3][1] = "Bagging-Date"
    /\ Len(dc_doc.children) = 3

\* C9: when baginfo lacks a key of the composite identifier, compile_dmdsec
\* logs exactly one ERROR that names a missing key and returns a section
\* without children; when baginfo has the three keys, no ERROR is logged and
\* the record has an identifier element with the text dcm:{..}@{..}@{..}.
C9_CompositeIdentifier ==
    dmdsec # None =>
        LET missing == {k \in Range(DCTERMS_IDENTIFIER_KEYS) :
                           ~HasKey(ip.baginfo, k)}
        IN IF missing # {}
           THEN /\ Len(Pick(ie_log, ERROR)) = 1
                /\ Pick(ie_log, ERROR)[1].arg \in missing
                /\ dmdsec.tag = "mets:dmdSec"
                /\ dmdsec.children = <<>>
           ELSE /\ Pick(ie_log, ERROR) = <<>>
                /\ \E c \in Range(RecordChildren(dmdsec)) :
                     /\ c.tag = "dcterms:identifier"
                     /\ c.text = "dcm:"
                          \o Get(ip.baginfo, "Source-Organization").str \o "@"
                          \o Get(ip.baginfo, "Origin-System-Identifier").str
                          \o "@" \o Get(ip.baginfo, "External-Identifier").str

\* compile_dmdsec has returned for a baginfo that lacks External-Identifier only
C9_Witness ==
    /\ dmdsec # None
    /\ HasKey(ip.baginfo, "Source-Organization")
    /\ HasKey(ip.baginfo, "Origin-System-Identifier")
    /\ ~HasKey(ip.baginfo, "External-Identifier")
    /\ Len(ie_log) = 1
    /\ ie_log[1].arg = "External-Identifier"

\* the preservation types of a category, first to last
TypeNames(base) ==
    <<base, base \o "_02", base \o "_03", base \o "_04", base \o "_05">>

\* the names of the representations of a category ([] when it is absent)
RepNames(payload_files, category) ==
    IF HasKey(payload_files, category)
    THEN KeyList(Get(payload_files, category)) ELSE <<>>

\* the j-th of the names in ascending order
NthName(names, j) ==
    CHOOSE n \in Range(names) :
        Cardinality({m \in Range(names) : NameRank(m) < NameRank(n)}) = j - 1

\* the representations offset+1 .. offset+Len(names) are those of the
\* category, in the order of their names, with the types of the category
CategoryInOrder(reps, payload_files, category, base, offset) ==
    LET names == RepNames(payload_files, category)
    IN \A j \in 1..Len(names) :
         /\ reps[offset + j].preservation_type = TypeNames(base)[j]
         /\ {reps[offset + j].files[l].href :
                l \in 1..Len(reps[offset + j].files)}
              = Range(Get(Get(payload_files, category), NthName(names, j)).list)

\* C10: the returned representations have the indices 1..n in list order:
\* preservation_master first, then the modified_master entries by name,
\* then the derivative_copy entries by name, with the types of their
\* category; all have usage type VIEW and pairwise distinct types.
C10_RepresentationOrder ==
    (representations # None /\ ~IsRaised(representations)) =>
        LET reps == representations.list
            pf == ip.payload_files
            m == IF HasKey(pf, "preservation_master") THEN 1 ELSE 0
            mm == Len(RepNames(pf, "modified_master"))
            dc == Len(RepNames(pf, "derivative_copy"))
        IN /\ Len(reps) = m + mm + dc
           /\ \A i \in 1..Len(reps) :
                reps[i].index = i /\ reps[i].usage_type = "VIEW"
           /\ m = 1 =>
                /\ reps[1].preservation_type = "PRESERVATION_MASTER"
                /\ {reps[1].files[l].href : l \in 1..Len(reps[1].files)}
                     = Range(Get(pf, "preservation_master").list)
           /\ CategoryInOrder(reps, pf, "modified_master", "MODIFIED_MASTER", m)
           /\ CategoryInOrder(reps, pf, "derivative_copy", "DERIVATIVE_COPY",
                              m + mm)
           /\ \A i, j \in 1..Len(reps) :
                reps[i].preservation_type = reps[j].preservation_type => i = j

\* a payload with a preservation master, the modified masters '2' and '10'
\* listed in this order, and two derivative copies
C10_Witness ==
    /\ representations # None
    /\ ~IsRaised(representations)
    /\ HasKey(ip.payload_files, "preservation_master")
    /\ RepNames(ip.payload_files, "modified_master") = <<"2", "10">>
    /\ RepNames(ip.payload_files, "derivative_copy") = <<"2", "1">>
    /\ Len(representations.list) = 5
    /\ representations.list[5].preservation_type = "DERIVATIVE_COPY_02"

-----------------------------------------------------------------------------
(* Claims about the validator and the BuildView *)

\* the schema type XMLValidator.__init__ asks for, for a version it knows
RequestedType(version) ==
    IF version = NoneStr THEN "XMLSchema"
    ELSE IF version = "1.0" THEN "XMLSchema10" ELSE "XMLSchema11"

\* C4: constructing an XMLValidator from a schema source that cannot be
\* loaded ends with a raised error whose message carries the marker
\* 'Unable to load schema', and no construction completes with an instance
\* whose schema is not loaded.
C4_LoadFailureRaises ==
    ctor_args # None =>
        /\ (/\ ctor_args.version \in {NoneStr, "1.0", "1.1"}
            /\ RequestedType(ctor_args.version) \notin ctor_args.loadable_as)
             => /\ IsRaised(validator)
                /\ Contains(validator.msg, LOAD_MARKER)
        /\ ~IsRaised(validator) => validator.schema # None

\* XMLValidator(...) for the primary source of the last BuildView(...) call
PrimaryAttempt ==
    Common_XMLValidator(config.VALIDATION_ROSETTA_METS_XSD,
                        config.VALIDATION_ROSETTA_METS_XML_SCHEMA_VERSION,
                        config.VALIDATION_ROSETTA_XSD_NAME, loadable)

\* the same for the fallback source, when one is configured
FallbackAttempt ==
    Common_XMLValidator(
        config.VALIDATION_ROSETTA_METS_XSD_FALLBACK,
        config.VALIDATION_ROSETTA_METS_XML_SCHEMA_VERSION_FALLBACK,
        config.VALIDATION_ROSETTA_XSD_NAME_FALLBACK, loadable)

\* the same for the dc.xml schema
DcxmlAttempt ==
    Common_XMLValidator(config.VALIDATION_DCXML_XSD,
                        config.VALIDATION_DCXML_XML_SCHEMA_VERSION,
                        config.VALIDATION_DCXML_NAME, loadable)

FallbackConfigured == config.VALIDATION_ROSETTA_METS_XSD_FALLBACK # NoneStr

\* the primary construction failed for a schema that could not be loaded
PrimaryLoadFailed ==
    IsRaised(PrimaryAttempt) /\ Contains(PrimaryAttempt.msg, LOAD_MARKER)

\* a Rosetta METS validator can be obtained: from the primary source, or
\* from the fallback after the primary schema could not be loaded
MetsObtainable ==
    \/ ~IsRaised(PrimaryAttempt)
    \/ PrimaryLoadFailed /\ FallbackConfigured /\ ~IsRaised(FallbackAttempt)

\* C5: BuildView initialization raises RuntimeError if and only if some
\* validation is active and no validator can be obtained for it; it raises
\* in particular when Rosetta METS validation is active and the primary
\* failed with no fallback configured or with a fallback that failed too,
\* and when dc.xml validation is active and its schema failed.  After a
\* successful initialization every active validation has a validator, and
\* a disabled validation never makes initialization fail.
C5_InitRaisesIffUnobtainable ==
    config # None =>
        /\ IsRaised(view) <=>
             \/ config.VALIDATION_ROSETTA_METS_ACTIVE /\ ~MetsObtainable
             \/ config.VALIDATION_DCXML_ACTIVE /\ IsRaised(DcxmlAttempt)
        /\ IsRaised(view) => view.raised = "RuntimeError"
        /\ (/\ config.VALIDATION_ROSETTA_METS_ACTIVE
            /\ IsRaised(PrimaryAttempt)
            /\ ~FallbackConfigured \/ IsRaised(FallbackAttempt))
             => IsRaised(view)
        /\ ~IsRaised(view) =>
             /\ config.VALIDATION_ROSETTA_METS_ACTIVE
                  => view.rosetta_mets_validator # None
             /\ config.VALIDATION_DCXML_ACTIVE => view.dcxml_validator # None
        /\ (/\ config.VALIDATION_ROSETTA_METS_ACTIVE => MetsObtainable
            /\ config.VALIDATION_DCXML_ACTIVE => ~IsRaised(DcxmlAttempt))
             => ~IsRaised(view)

\* BuildView(...) has raised with Rosetta METS validation active, the
\* primary and the fallback schema both unloadable, and the dc.xml schema
\* loadable
C5_Witness ==
    /\ config # None
    /\ IsRaised(view)
    /\ config.VALIDATION_ROSETTA_METS_ACTIVE
    /\ PrimaryLoadFailed
    /\ FallbackConfigured
    /\ IsRaised(FallbackAttempt)
    /\ ~IsRaised(DcxmlAttempt)

\* the positions of the trace at which the fallback validator is constructed
FallbackCalls ==
    {i \in 1..Len(events) :
        events[i] = Constructs(config.VALIDATION_ROSETTA_METS_XSD_FALLBACK)}

\* C6: in make_validator the fallback validator is constructed only after
\* the primary construction failed with the marker 'Unable to load schema'
\* and only when a fallback source is configured; a primary failure
\* without the marker leads to no fallback attempt and to no validator;
\* whenever the fallback validator is returned, a warning has been printed
\* before its construction and is the returned message.
C6_FallbackProtocol ==
    mv # None =>
        /\ \A i \in FallbackCalls :
             /\ i > 1
             /\ events[1] = Constructs(config.VALIDATION_ROSETTA_METS_XSD)
             /\ PrimaryLoadFailed
             /\ FallbackConfigured
        /\ (IsRaised(PrimaryAttempt) /\ ~PrimaryLoadFailed)
             => FallbackCalls = {} /\ mv.validator = None
        /\ (/\ mv.validator # None
            /\ mv.validator.schema
                 = config.VALIDATION_ROSETTA_METS_XSD_FALLBACK)
             => /\ \E i \in FallbackCalls :
                     \E j \in 1..(i - 1) : events[j] = Prints
                /\ Contains(mv.msg, "WARNING")
                /\ stderr = <<mv.msg>>

\* make_validator has returned the fallback validator
C6_Witness ==
    /\ mv # None
    /\ mv.validator # None
    /\ mv.validator.schema = config.VALIDATION_ROSETTA_METS_XSD_FALLBACK
    /\ FallbackCalls # {}

\* the lists of file paths that payload_files holds, one per representation
PathLists(payload_files) ==
    (IF HasKey(payload_files, "preservation_master")
     THEN {Get(payload_files, "preservation_master").list} ELSE {})
    \cup UNION {{Get(payload_files, c).items[i][2].list :
                    i \in 1..Len(Get(payload_files, c).items)} :
                c \in {k \in {"modified_master", "derivative_copy"} :
                          HasKey(payload_files, k)}}

\* C11: within every derived Representation with k files the File indices
\* are exactly 1..k, and index i belongs to the i-th of the
\* representation's file paths in lexicographic order, whatever the order
\* in which payload_files lists them.
C11_FileIndices ==
    (representations # None /\ ~IsRaised(representations)) =>
        \A r \in 1..Len(representations.list) :
            LET files == representations.list[r].files
            IN /\ \A i \in 1..Len(files) : files[i].index = i
               /\ \A i, j \in 1..Len(files) :
                    i < j => NameRank(files[i].href) < NameRank(files[j].href)
               /\ \E l \in PathLists(ip.payload_files) :
                    /\ Len(l) = Len(files)
                    /\ Range(l) = {files[i].href : i \in 1..Len(files)}

\* the representations were derived from a preservation_master listing in
\* descending order
C11_Witness ==
    /\ representations # None
    /\ ~IsRaised(representations)
    /\ HasKey(ip.payload_files, "preservation_master")
    /\ Get(ip.payload_files, "preservation_master").list
         = <<IPPath("preservation_master/b.tif"),
             IPPath("preservation_master/a.tif")>>
    /\ representations.list[1].files[1].href
         = IPPath("preservation_master/a.tif")
    /\ representations.list[1].files[2].index = 2

\* the triple of C12 for an element: the position of its tag in the
\* canonical order (the number of entries when it is not in it), its tag
\* and its text ("" for no text), tag and text by their rank in str order
CanonicalTriple(x) ==
    LET at == {i \in 1..Len(DMD_DC_RECORD_ORDER) :
                  DMD_DC_RECORD_ORDER[i] = x.tag}
    IN << IF at = {} THEN Len(DMD_DC_RECORD_ORDER)
          ELSE (CHOOSE i \in at : TRUE) - 1,
          TagRank(x.tag),
          TextRank(IF x.text = NoneStr THEN "" ELSE x.text) >>

\* the record of the descriptive section, when the section has one
HasRecord(sec) == sec # None /\ sec.children # <<>>

\* C12: the children of the descriptive section's DC record are in
\* ascending order of the triple (position of the tag in the 9-entry
\* canonical order or 9, tag, text), and children with equal triples are
\* equal elements, so the sequence is determined by the multiset of
\* (tag, text) pairs supplied and not by the order of the input.
C12_RecordSorted ==
    HasRecord(dmdsec) =>
        LET rec == RecordChildren(dmdsec)
        IN /\ Len(DMD_DC_RECORD_ORDER) = 9
           /\ \A i, j \in 1..Len(rec) :
                i < j => ~TupleLess(CanonicalTriple(rec[j]),
                                    CanonicalTriple(rec[i]))
           /\ \A i, j \in 1..Len(rec) :
                CanonicalTriple(rec[i]) = CanonicalTriple(rec[j])
                  => rec[i] = rec[j]

\* a record was built from a baginfo with DC-Title and a dc.xml that
\* supplied an element outside the canonical order and one inside it
C12_Witness ==
    /\ HasRecord(dmdsec)
    /\ HasKey(ip.baginfo, "DC-Title")
    /\ \E i, j \in 1..Len(RecordChildren(dmdsec)) :
         /\ i < j
         /\ RecordChildren(dmdsec)[i] = Leaf("dcterms:identifier", "y")
         /\ RecordChildren(dmdsec)[j] = Leaf("dc:subject", NoneStr)

\* the number of elements of a sequence that have the tag and the text
Count(elems, tag, text) ==
    Cardinality({i \in 1..Len(elems) :
                    elems[i].tag = tag /\ elems[i].text = text})

\* C13: when compile_dmdsec is given a secondary DC document, every child
\* of it whose (tag, text) pair was already added from baginfo is left out
\* of the record, every other child of it is in the record, and the
\* elements added from baginfo are all kept: the record holds the composite
\* identifier, the elements from baginfo and the other children of the
\* document, each as often as supplied.
C13_DuplicatesDropped ==
    [][(IECompile /\ HasRecord(dmdsec') /\ ip.dc_xml # None) =>
         LET rec == RecordChildren(dmdsec')
             added == MapChildren(ip.baginfo, IE_BAG_INFO_DC_MAP)
             given == ip.dc_xml.root.children
             ident == "dcm:" \o Get(ip.baginfo, "Source-Organization").str
                      \o "@" \o Get(ip.baginfo, "Origin-System-Identifier").str
                      \o "@" \o Get(ip.baginfo, "External-Identifier").str
         IN \A e \in Range(rec) \cup Range(added) \cup Range(given) :
              Count(rec, e.tag, e.text)
                = Count(added, e.tag, e.text)
                  + (IF Count(added, e.tag, e.text) > 0 THEN 0
                     ELSE Count(given, e.tag, e.text))
                  + (IF e.tag = "dcterms:identifier" /\ e.text = ident
                     THEN 1 ELSE 0)]_vars

\* compile_dmdsec has left <dc:title>a</dc:title> of dc.xml out, which
\* baginfo supplied, and has taken <dc:title>b</dc:title> from dc.xml
C13_Witness ==
    /\ HasRecord(dmdsec)
    /\ ip.dc_xml # None
    /\ ip.dc_xml.root.children = <<Leaf("dc:title", "a")>>
    /\ HasKey(ip.baginfo, "DC-Title")
    /\ Get(ip.baginfo, "DC-Title") = Str("a")
    /\ Count(RecordChildren(dmdsec), "dc:title", "a") = 1
    /\ Count(RecordChildren(dmdsec), "dc:title", "b") = 1

\* the value of an attribute of an element, NoneStr when it has none
Attr(e, name) ==
    IF \E i \in 1..Len(e.attrib) : e.attrib[i][1] = name
    THEN e.attrib[CHOOSE i \in 1..Len(e.attrib) : e.attrib[i][1] = name][2]
    ELSE NoneStr

\* tag, ID and ADMID of the element and of its descendants, in document
\* order, for those that have an ID
RECURSIVE Identified(_)
Identified(e) ==
    (IF Attr(e, "ID") = NoneStr THEN <<>>
     ELSE << <<e.tag, Attr(e, "ID"), Attr(e, "ADMID")>> >>)
    \o FlattenSeq([i \in 1..Len(e.children) |-> Identified(e.children[i])])

\* the number of identified elements with the tag, the ID and the ADMID
Occurrences(ids, tag, id, admid) ==
    Cardinality({i \in 1..Len(ids) : ids[i] = <<tag, id, admid>>})

\* C14: in the compiled METS document there is, for every representation
\* N, exactly one technical section with ID rep{N}-amd and exactly one
\* file group with ID rep{N} and ADMID rep{N}-amd, and for every file M of
\* it exactly one technical section with ID fid{N}-{M}-amd and exactly one
\* file entry with ID fid{N}-{M} and ADMID fid{N}-{M}-amd; every ADMID is
\* the ID of an element, and the IDs are pairwise distinct.
C14_ReferentialIntegrity ==
    (/\ ie_doc # None
     /\ ~IsRaised(ie_doc)
     /\ representations # None
     /\ ~IsRaised(representations)) =>
        LET ids == Identified(ie_doc)
            reps == representations.list
            rep(n) == "rep" \o ToString(reps[n].index)
            fid(n, m) == "fid" \o ToString(reps[n].index) \o "-"
                         \o ToString(reps[n].files[m].index)
        IN /\ \A n \in 1..Len(reps) :
                /\ Occurrences(ids, "mets:amdSec", rep(n) \o "-amd", NoneStr)
                     = 1
                /\ Occurrences(ids, "mets:fileGrp", rep(n), rep(n) \o "-amd")
                     = 1
                /\ \A m \in 1..Len(reps[n].files) :
                     /\ Occurrences(ids, "mets:amdSec", fid(n, m) \o "-amd",
                                    NoneStr) = 1
                     /\ Occurrences(ids, "mets:file", fid(n, m),
                                    fid(n, m) \o "-amd") = 1
           /\ \A i \in 1..Len(ids) :
                ids[i][3] # NoneStr
                  => \E j \in 1..Len(ids) : ids[j][2] = ids[i][3]
           /\ \A i, j \in 1..Len(ids) : ids[i][2] = ids[j][2] => i = j

\* a document was compiled for three representations, the first and the
\* second with two files each
C14_Witness ==
    /\ ie_doc # None
    /\ ~IsRaised(ie_doc)
    /\ representations # None
    /\ ~IsRaised(representations)
    /\ Len(representations.list) = 3
    /\ Len(representations.list[1].files) = 2
    /\ Len(representations.list[2].files) = 2
    /\ Occurrences(Identified(ie_doc), "mets:file", "fid2-2", "fid2-2-amd") = 1

\* the schema language of a schema class of xmlschema (XMLSchema is
\* XMLSchema10)
Language(schema_type) == IF schema_type = "XMLSchema11" THEN "1.1" ELSE "1.0"

\* C18: constructing an XMLValidator with a version other than absent,
\* '1.0' or '1.1' raises ValueError without an attempt to load a schema;
\* absent and '1.0' select schema language 1.0, '1.1' selects 1.1.
C18_VersionSelector ==
    ctor_args # None =>
        IF ctor_args.version \in {NoneStr, "1.0", "1.1"}
        THEN /\ ~IsRaised(validator)
             /\ Len(load_calls) = 1
             /\ Language(load_calls[1])
                  = (IF ctor_args.version = "1.1" THEN "1.1" ELSE "1.0")
        ELSE /\ IsRaised(validator)
             /\ validator.raised = "ValueError"
             /\ load_calls = <<>>

\* XMLValidator(...) has raised for the version '2.0' and a loadable schema
C18_Witness ==
    /\ ctor_args # None
    /\ ctor_args.version = "2.0"
    /\ ctor_args.loadable_as = SchemaTypes
    /\ IsRaised(validator)

\* C15: validate returns a log with exactly one ERROR entry per schema
\* violation of the document, all of them and in their order (none for a
\* conformant document); for a document that is not well-formed it returns
\* exactly one ERROR entry, which describes the parse failure; it does not
\* raise.
C15_ValidateReportsAll ==
    vlog # None =>
        /\ ~IsRaised(vlog)
        /\ IF doc.well_formed
           THEN /\ Len(Pick(vlog.log, ERROR)) = Len(doc.errors)
                /\ \A i \in 1..Len(doc.errors) :
                     /\ Pick(vlog.log, ERROR)[i].body = ERROR_FORMAT
                     /\ Pick(vlog.log, ERROR)[i].arg.reason
                          = doc.errors[i].reason
           ELSE /\ Len(Pick(vlog.log, ERROR)) = 1
                /\ Pick(vlog.log, ERROR)[1].body = MALFORMED

\* C16: every log that validate returns holds exactly one INFO entry, it
\* is the last entry, and it reports INVALID if and only if the log holds
\* an ERROR entry, for conformant, violating and malformed documents alike.
C16_TrailingInfo ==
    (vlog # None /\ ~IsRaised(vlog)) =>
        /\ Len(Pick(vlog.log, INFO)) = 1
        /\ vlog.log[Len(vlog.log)].ctx = INFO
        /\ vlog.log[Len(vlog.log)].body = INFO_FORMAT
        /\ vlog.log[Len(vlog.log)].arg.result \in {"VALID", "INVALID"}
        /\ vlog.log[Len(vlog.log)].arg.result = "INVALID"
             <=> Pick(vlog.log, ERROR) # <<>>

\* validate has returned for a document that is not well-formed
C16_Witness ==
    /\ vlog # None
    /\ ~IsRaised(vlog)
    /\ ~doc.well_formed
    /\ vlog.log[Len(vlog.log)].arg.result = "INVALID"

\* C17: is_valid returns True exactly for well-formed documents that
\* conform to the schema, and returns False without raising for documents
\* that violate the schema and for input that is not well-formed.
C17_IsValid ==
    valid # None =>
        /\ ~IsRaised(valid)
        /\ valid.bool <=> (doc.well_formed /\ doc.errors = <<>>)

-----------------------------------------------------------------------------
(* Builder *)

BUILDER_TAG == "SIP Builder"

\* what a Builder.build call meets on disk: whether the SIP directory sip.path
\* exists, whether the IP has a payload directory ip.path/data, and whether
\* sip.path/content/streams exists already (only inside an existing sip.path)
FileSystems ==
    {fs \in [sip_dir : BOOLEAN, payload : BOOLEAN, streams : BOOLEAN] :
        fs.streams => fs.sip_dir}

\* what a step of the Builder returned, logged and wrote
Written(ok, log, files, steps) ==
    [ok |-> ok, log |-> log, files |-> files, steps |-> steps]

\* Builder._write_metadata(metadata, sip.path / dst), where above_exists tells
\* whether the directory above dst.parent exists (mkdir with parents=False)
_write_metadata(dst, above_exists) ==
    IF ~above_exists
    THEN Written(FALSE,
                 <<LogEntry(ERROR, BUILDER_TAG,
                            "Unable to write metadata '{dst}' ({exc_info}).",
                            dst)>>,
                 {}, <<dst>>)
    ELSE Written(TRUE, <<>>, {dst}, <<dst>>)

\* write_metadata that goes on to dc.xml after ie.xml failed; the failed
\* attempt left no sip.path, so that mkdir with parents=False fails again
write_metadata_Both(fs) ==
    LET ie == _write_metadata("content/ie.xml", fs.sip_dir)
        dc == _write_metadata("dc.xml", ie.ok)
    IN Written(ie.ok /\ dc.ok, ie.log \o dc.log, ie.files \cup dc.files,
               ie.steps \o dc.steps)

\* Builder.write_metadata: dc.xml is written after ie.xml only, when sip.path
\* exists, hence into a directory whose parent exists
write_metadata(fs) ==
    LET ie == _write_metadata("content/ie.xml", fs.sip_dir)
        dc == _write_metadata("dc.xml", TRUE)
    IN IF ~ie.ok THEN ie
       ELSE Written(dc.ok, ie.log \o dc.log, ie.files \cup dc.files,
                    ie.steps \o dc.steps)

\* Builder.write_payload: copytree reads the source before it makes the target
write_payload(fs) ==
    IF ~fs.payload
    THEN Written(FALSE,
                 <<LogEntry(ERROR, BUILDER_TAG,
                            "Writing payload failed, source '{src}' not found.",
                            "data")>>,
                 {}, <<"content/streams">>)
    ELSE IF fs.streams
    THEN Written(FALSE,
                 <<LogEntry(ERROR, BUILDER_TAG,
                            "Writing payload failed, target '{dst}' already exists.",
                            "content/streams")>>,
                 {}, <<"content/streams">>)
    ELSE Written(TRUE, <<>>, {"content/streams"}, <<"content/streams">>)

\* Builder.build that takes the SIP for built once its metadata is written
Builder_build_MetadataOnly(fs) ==
    LET md == write_metadata(fs)
        pl == write_payload(fs)
        built == md.ok
        steps == IF md.ok
                 THEN Written(pl.ok, md.log \o pl.log, md.files \cup pl.files,
                              md.steps \o pl.steps)
                 ELSE md
    IN [built |-> built,
        returned |-> built,
        steps |-> steps.steps,
        log |-> steps.log
                \o <<LogEntry(INFO, BUILDER_TAG,
                              IF built
                              THEN "Successfully assembled SIP at '{sip.path}'."
                              ELSE "No SIP has been built.",
                              NoneStr)>>,
        files |-> steps.files]

\* Builder.build after the reset of the log: sip.built, the entries logged and
\* the files written
Builder_build(fs) ==
    LET md == write_metadata(fs)
        pl == write_payload(fs)
        built == md.ok /\ pl.ok
        steps == IF md.ok
                 THEN Written(pl.ok, md.log \o pl.log, md.files \cup pl.files,
                              md.steps \o pl.steps)
                 ELSE md
    IN [built |-> built,
        returned |-> built,
        steps |-> steps.steps,
        log |-> steps.log
                \o <<LogEntry(INFO, BUILDER_TAG,
                              IF built
                              THEN "Successfully assembled SIP at '{sip.path}'."
                              ELSE "No SIP has been built.",
                              NoneStr)>>,
        files |-> steps.files]

\* the SIP object after Builder.build, with the files under sip.path
SIP(built, files) == [built |-> built, files |-> files]

\* IPs as IP(path) loads them; the first only with ignore_errors=True
DeficientIP == InputModel(None, None, NoPayload, None, None, None)

\* bag-info.txt without External-Identifier
BaginfoWithoutExternalIdentifier ==
    Dict(Without(IdentifierKeys, {3}) \o << <<"DC-Title", Str("a")>> >>)

OneMasterFile ==
    Dict(<< <<"preservation_master",
              List(<<IPPath("preservation_master/a.tif")>>)>> >>)

FullManifests ==
    Dict(<< <<"sha256", Manifest("sha256", AllPaths)>>,
            <<"md5", Manifest("md5", AllPaths)>> >>)

\* manifests of which one does not list the payload file
PartialManifests ==
    Dict(<< <<"sha256", Manifest("sha256", AllPaths)>>,
            <<"md5", Manifest("md5", AllPaths
                                \ {IPPath("preservation_master/a.tif")})>> >>)

\* the IPs a build job loads: IP(path) raises unless bag-info.txt and some
\* manifest could be read
JobInputs ==
    {InputModel(b, m, p, None, None, None) :
        b \in {CompleteBaginfo, BaginfoWithoutExternalIdentifier},
        m \in {FullManifests, PartialManifests},
        p \in {NoPayload, OneMasterFile}}

LogInputs == {DeficientIP} \cup JobInputs

\* IP(path): the caller gets another IP to hand to the components
ReadIP ==
    /\ ip' \in LogInputs
    /\ UNCHANGED <<dc_log, dc_doc, dc_str, dc_prev, ie_log, ie_doc, ie_str,
                   ie_prev, dmdsec, representations, validatorVars, viewVars>>

\* Builder.build(ip, ie, dc, sip) with the strings the compilers returned
BuilderBuild ==
    /\ dc_str # None
    /\ ie_str # None
    /\ ~IsRaised(ie_str)
    /\ \E fs \in FileSystems :
         \E r \in {Builder_build(fs)} :
           /\ builder_log' = ResetLog(builder_log) \o r.log
           /\ sip' = SIP(r.built, r.files)
           /\ build_call' = [returned |-> r.returned, steps |-> r.steps]
    /\ UNCHANGED <<compilerVars, validatorVars, config, loadable, view, mv,
                   stderr, events, report, job_calls, jobs>>

NextLog == ReadIP \/ DCCompile \/ IECompile \/ BuilderBuild

InitLog == ip \in LogInputs /\ InitComponents

\* the components called again and again, on one IP after another
SpecLog == InitLog /\ [][NextLog]_vars

\* whether bag-info.txt holds the three keys of the composite identifier
HasIdentifierKeys(baginfo) ==
    \A i \in 1..Len(IdentifierKeys) : HasKey(baginfo, IdentifierKeys[i][1])

\* C20: whatever calls came before, after a compile call the compiler's log
\* holds only what that call logged for its own input (one ERROR entry for a
\* deficient bag-info.txt, nothing for a complete one), and after a build
\* call the Builder's log holds only that call's single INFO entry with at
\* most one ERROR entry, present exactly when no SIP was built
C20_LogOfLastCall ==
    [][/\ DCCompile =>
            /\ Len(dc_log') <= 1
            /\ (Pick(dc_log', ERROR) # <<>>) <=> (ip.baginfo = None)
       /\ IECompile =>
            /\ Len(ie_log') <= 1
            /\ (Pick(ie_log', ERROR) # <<>>)
                 <=> (ip.baginfo = None \/ ~HasIdentifierKeys(ip.baginfo))
       /\ BuilderBuild =>
            /\ Len(Pick(builder_log', INFO)) = 1
            /\ Len(builder_log') <= 2
            /\ (Pick(builder_log', ERROR) # <<>>) <=> ~sip'.built]_vars

\* each instance was called on a deficient input and then on a complete one:
\* the compilers returned the empty documents of an IP without bag-info.txt
\* before their last results, no SIP was built before the last one, and the
\* logs hold no ERROR entry
C20_Witness ==
    /\ dc_prev = tostring(DC_Root(<<>>))
    /\ dc_str # None /\ dc_str # dc_prev
    /\ Pick(dc_log, ERROR) = <<>>
    /\ ie_prev = tostring(IE_Root(<<>>))
    /\ ie_str # None /\ ~IsRaised(ie_str) /\ ie_str # ie_prev
    /\ Pick(ie_log, ERROR) = <<>>
    /\ sip # None /\ sip.built
    /\ Pick(builder_log, ERROR) = <<>>

-----------------------------------------------------------------------------
(* The build job of the view *)

\* validate of the XMLValidator the view holds: one ERROR entry for each of
\* the violations found in the document, then one INFO entry with the verdict
Common_validate(instance, xml_name, violations) ==
    [log |-> [i \in 1..violations |->
                 LogEntry(ERROR, VALIDATOR_TAG, ERROR_FORMAT, xml_name)]
             \o <<LogEntry(INFO, VALIDATOR_TAG, INFO_FORMAT,
                           [xml |-> xml_name, schema |-> instance.name,
                            result |-> IF violations > 0 THEN "INVALID"
                                       ELSE "VALID"])>>]

\* "Context.ERROR not in log" negated
HasError(log) == Pick(log, ERROR) # <<>>

\* info.report of a build job: data.path, data.success, the log, and the
\* exception that ended the job, if any
Report(path, success, log, raised) ==
    [path |-> path, success |-> success, log |-> log, raised |-> raised]

\* the directory that get_output_path made for the SIP
SIP_PATH == "sip_output/0"

NO_OUTPUT ==
    "Unable to generate output directory in '{}'(maximum retries exceeded)."

\* the end of the job on the paths that return: info.report.progress.complete()
\* and then self._run_callback(...)
Completion == <<"progress.complete", "_run_callback">>

\* the job's end with a success that is what Builder.build returned
ValidateAndBuild_BuiltOnly(cfg, view_, compiled, v_ie, v_dc, fs) ==
    LET mets == IF cfg.VALIDATION_ROSETTA_METS_ACTIVE
                THEN Common_validate(view_.rosetta_mets_validator, "ie.xml",
                                     v_ie).log
                ELSE <<>>
        dcxml == IF cfg.VALIDATION_DCXML_ACTIVE
                 THEN Common_validate(view_.dcxml_validator, "dc.xml",
                                      v_dc).log
                 ELSE <<>>
        before == compiled \o mets \o dcxml
        b == Builder_build(fs)
    IN [before |-> before,
        success |-> Bool(b.built),
        built |-> b.built,
        returned |-> b.returned,
        steps |-> b.steps,
        files |-> b.files,
        builder_entries |-> b.log,
        calls |-> (IF cfg.VALIDATION_ROSETTA_METS_ACTIVE
                   THEN <<"rosetta_mets_validator.validate">> ELSE <<>>)
                  \o (IF cfg.VALIDATION_DCXML_ACTIVE
                      THEN <<"dcxml_validator.validate">> ELSE <<>>)
                  \o <<"builder.build">> \o Completion]

\* the job's part from the validation on: the validators that are active,
\* ie.xml before dc.xml, then Builder.build whatever the log holds
ValidateAndBuild(cfg, view_, compiled, v_ie, v_dc, fs) ==
    LET mets == IF cfg.VALIDATION_ROSETTA_METS_ACTIVE
                THEN Common_validate(view_.rosetta_mets_validator, "ie.xml",
                                     v_ie).log
                ELSE <<>>
        dcxml == IF cfg.VALIDATION_DCXML_ACTIVE
                 THEN Common_validate(view_.dcxml_validator, "dc.xml",
                                      v_dc).log
                 ELSE <<>>
        before == compiled \o mets \o dcxml
        b == Builder_build(fs)
    IN [before |-> before,
        success |-> Bool(~HasError(before) /\ b.built),
        built |-> b.built,
        returned |-> b.returned,
        steps |-> b.steps,
        files |-> b.files,
        builder_entries |-> b.log,
        calls |-> (IF cfg.VALIDATION_ROSETTA_METS_ACTIVE
                   THEN <<"rosetta_mets_validator.validate">> ELSE <<>>)
                  \o (IF cfg.VALIDATION_DCXML_ACTIVE
                      THEN <<"dcxml_validator.validate">> ELSE <<>>)
                  \o <<"builder.build">> \o Completion]

\* the schema sources of the configurations
AllSources == {METS_XSD, METS_XSD_FALLBACK, DCXML_XSD}

\* configurations under which the view can be constructed: each validation
\* on or off
JobConfigs ==
    {cfg \in AppConfigs :
        /\ cfg.VALIDATION_ROSETTA_METS_XML_SCHEMA_VERSION = "1.1"
        /\ cfg.VALIDATION_ROSETTA_METS_XSD_FALLBACK = NoneStr
        /\ cfg.VALIDATION_ROSETTA_METS_XML_SCHEMA_VERSION_FALLBACK = "1.1"
        /\ cfg.VALIDATION_DCXML_XML_SCHEMA_VERSION = "1.1"}

\* the output directory get_output_path made: new, hence without streams
JobFileSystems == {fs \in FileSystems : fs.sip_dir /\ ~fs.streams}

\* BuildView.build without an output path
BuildJobNoOutput ==
    /\ report' = Report(NoneStr, Bool(FALSE),
                        <<LogEntry(ERROR, BUILDER_TAG, NO_OUTPUT, NoneStr)>>,
                        NoneStr)
    /\ job_calls' = <<"get_output_path">> \o Completion
    /\ UNCHANGED <<compilerVars, validatorVars, config, loadable, view, mv,
                   stderr, events, builder_log, sip, build_call, jobs>>

\* BuildView.build when IP(path) raises for an IP that it cannot read
BuildJobNoIP ==
    /\ report' = Report(SIP_PATH, None, <<>>, "AttributeError")
    /\ job_calls' = <<"get_output_path", "IP">>
    /\ UNCHANGED <<compilerVars, validatorVars, config, loadable, view, mv,
                   stderr, events, builder_log, sip, build_call, jobs>>

\* BuildView.build on an IP that was read: dc.xml and ie.xml are compiled,
\* the active validators validate them, the Builder builds; an exception of
\* the IE compiler ends the job
BuildJobCompile ==
    \E loaded \in JobInputs, v_ie \in 0..MaxViolations,
       v_dc \in 0..MaxViolations, fs \in JobFileSystems :
      \E dc \in {DC_compile(loaded)}, ie \in {IE_compile(loaded)} :
        LET dc_entries == ResetLog(dc_log) \o dc.log
            ie_entries == ResetLog(ie_log) \o ie.log
            rest == ValidateAndBuild(config, view, dc_entries \o ie_entries,
                                     v_ie, v_dc, fs)
            first == <<"get_output_path", "IP",
                       "dc_compiler.compile_as_string",
                       "ie_compiler.compile_as_string">>
        IN /\ dc_log' = dc_entries
           /\ dc_doc' = dc.doc
           /\ dc_str' = tostring(dc.doc)
           /\ dc_prev' = dc_str
           /\ ie_log' = ie_entries
           /\ ie_doc' = ie.doc
           /\ ie_str' = IF IsRaised(ie.doc) THEN ie.doc ELSE tostring(ie.doc)
           /\ ie_prev' = ie_str
           /\ dmdsec' = ie.dmdsec
           /\ representations' = ie.representations
           /\ ip' = [loaded EXCEPT !.dc_xml = ie.dc_xml]
           /\ IF IsRaised(ie.doc)
              THEN /\ report' = Report(SIP_PATH, None, dc_entries,
                                       ie.doc.raised)
                   /\ job_calls' = first
                   /\ UNCHANGED <<builder_log, sip, build_call>>
              ELSE /\ builder_log' = ResetLog(builder_log)
                                     \o rest.builder_entries
                   /\ sip' = SIP(rest.built, rest.files)
                   /\ build_call' = [returned |-> rest.returned,
                                     steps |-> rest.steps]
                   /\ report' = Report(SIP_PATH, rest.success,
                                       rest.before \o builder_log', NoneStr)
                   /\ job_calls' = first \o rest.calls
           /\ UNCHANGED <<validatorVars, config, loadable, view, mv, stderr,
                          events, jobs>>

\* BuildView.build
BuildJob == BuildJobNoOutput \/ BuildJobNoIP \/ BuildJobCompile

NextBuild == BuildJob

\* a view constructed under a configuration whose schemas could be loaded
InitBuild ==
    /\ ip = DeficientIP
    /\ dc_log = Logger /\ dc_doc = None /\ dc_str = None /\ dc_prev = None
    /\ ie_log = Logger /\ ie_doc = None /\ ie_str = None /\ ie_prev = None
    /\ dmdsec = None /\ representations = None
    /\ validator = None /\ ctor_args = None /\ load_calls = <<>>
    /\ doc = None /\ vlog = None /\ valid = None
    /\ config \in JobConfigs
    /\ loadable = AllSources
    /\ \E r \in {BuildView_init(config, AllSources)} :
         /\ view = r.view
         /\ mv = r.mv
         /\ stderr = r.stderr
         /\ events = r.events
    /\ builder_log = Logger /\ sip = None /\ report = None
    /\ job_calls = <<>> /\ build_call = None /\ jobs = <<>>

\* build jobs of one view, one after the other
SpecBuild == InitBuild /\ [][NextBuild]_vars

\* C19: in every build job that got an output path and could read its IP, the
\* Builder is invoked, once and after the calls of both compilers and of the
\* active validators, and the job reports success exactly when the log held
\* no ERROR entry before the Builder was invoked and Builder.build returned
\* True
C19_BuilderAlwaysInvoked ==
    (report # None /\ report.path # NoneStr
       /\ report.raised # "AttributeError") =>
        /\ \E k \in 1..Len(job_calls) :
             /\ job_calls[k] = "builder.build"
             /\ \A l \in (k + 1)..Len(job_calls) :
                  job_calls[l] \in {"progress.complete", "_run_callback"}
        /\ Len(SelectSeq(job_calls, LAMBDA c : c = "builder.build")) = 1
        /\ \E i, j \in 1..Len(job_calls) :
             /\ i < j
             /\ job_calls[i] = "dc_compiler.compile_as_string"
             /\ job_calls[j] = "ie_compiler.compile_as_string"
        /\ (report.success = Bool(TRUE))
             <=> /\ ~HasError(SubSeq(report.log, 1,
                                     Len(report.log) - Len(builder_log)))
                 /\ sip.built

\* the files of a SIP whose metadata and payload were written
SIP_FILES == {"content/ie.xml", "dc.xml", "content/streams"}

\* C24: Builder.build returns True exactly when ie.xml, dc.xml and the
\* payload were all written; what it returns is sip.built; and its log holds
\* exactly one INFO entry, the success message when the SIP was built and
\* "No SIP has been built." otherwise
C24_BuildResult ==
    build_call # None =>
        /\ build_call.returned <=> (sip.files = SIP_FILES)
        /\ build_call.returned = sip.built
        /\ Len(Pick(builder_log, INFO)) = 1
        /\ Pick(builder_log, INFO)[1].body
             = (IF sip.built
                THEN "Successfully assembled SIP at '{sip.path}'."
                ELSE "No SIP has been built.")

\* a build that returned False after the metadata had been written
C24_Witness ==
    /\ build_call # None
    /\ ~build_call.returned
    /\ "dc.xml" \in sip.files
    /\ Pick(builder_log, INFO)[1].body = "No SIP has been built."

\* whether xs is the sequence ys up to some place
IsPrefix(xs, ys) == Len(xs) <= Len(ys) /\ xs = SubSeq(ys, 1, Len(xs))

\* the steps of a build in their order
BUILD_STEPS == <<"content/ie.xml", "dc.xml", "content/streams">>

\* C30: the steps a build attempts are ie.xml, dc.xml and the payload copy in
\* this order, up to and including the first that fails: every step before
\* the last attempted one left its file, nothing is attempted after a step
\* that left none, and each failed step, the payload copy with a missing
\* source or an existing target included, logged exactly one ERROR entry and
\* made build return False
C30_StepsInOrder ==
    build_call # None =>
        /\ build_call.steps # <<>>
        /\ IsPrefix(build_call.steps, BUILD_STEPS)
        /\ \A i \in 1..(Len(build_call.steps) - 1) :
             build_call.steps[i] \in sip.files
        /\ Len(build_call.steps) < Len(BUILD_STEPS) =>
             build_call.steps[Len(build_call.steps)] \notin sip.files
        /\ Len(Pick(builder_log, ERROR))
             = (IF build_call.steps[Len(build_call.steps)] \in sip.files
                THEN 0 ELSE 1)
        /\ build_call.steps[Len(build_call.steps)] \notin sip.files =>
             ~build_call.returned

\* a build whose payload copy failed after both metadata files were written
C30_Witness ==
    /\ build_call # None
    /\ build_call.steps = BUILD_STEPS
    /\ "content/streams" \notin sip.files
    /\ Len(Pick(builder_log, ERROR)) = 1

\* C29: a job that reports success True has a final report log, the builder's
\* entries included, without ERROR entry, and a build that returned True
\* logged no ERROR entry
C29_SuccessWithoutError ==
    /\ (report # None /\ report.success = Bool(TRUE)) => ~HasError(report.log)
    /\ (build_call # None /\ build_call.returned) => ~HasError(builder_log)

\* a finished job that reports success True after a job whose compilation
\* logged an ERROR entry
C29_Witness ==
    /\ report # None
    /\ report.success = Bool(TRUE)
    /\ build_call # None /\ build_call.returned
    /\ Pick(report.log, INFO) # <<>>
    /\ dc_prev # None /\ dc_prev # dc_str

\* C28: every build job ends with progress.complete and then the callback,
\* each exactly once and as the last two calls; a job without output path
\* reports success False and one ERROR entry and calls nothing in between:
\* no IP is read, nothing compiled, validated or built
C28_JobCompletion ==
    report # None =>
        /\ Len(job_calls) >= 2
        /\ SubSeq(job_calls, Len(job_calls) - 1, Len(job_calls)) = Completion
        /\ Len(SelectSeq(job_calls,
                         LAMBDA c : c \in {"progress.complete",
                                           "_run_callback"})) = 2
        /\ report.path = NoneStr =>
             /\ report.success = Bool(FALSE)
             /\ Len(report.log) = 1
             /\ HasError(report.log)
             /\ job_calls = <<"get_output_path">> \o Completion

\* the name the claim C25 gives a content: the flattened content, cut to
\* its first N characters and marked ".." only when it is longer than N
NameOf(content) ==
    LET flat == _flatten_multiline(content)
    IN IF Len(flat) <= N THEN flat ELSE SubSeq(flat, 1, N) \o <<".", ".">>

\* C25: a validator constructed without schema name is named by the flattened
\* schema source itself when that has at most 50 characters, and by its first
\* 50 characters followed by ".." only when it is longer; likewise the name
\* of a document in the INFO entry of a validate call without xml_name
C25_GeneratedName ==
    /\ (validator # None /\ ~IsRaised(validator)
          /\ ctor_args.schema_name = None) =>
           validator.name = NameOf(ctor_args.schema)
    /\ (vlog # None /\ ~IsRaised(vlog)) =>
           vlog.log[Len(vlog.log)].arg.xml
             \in {NameOf(doc.text)} \cup {n.str : n \in XmlNames \ {None}}

\* C22: a validate or is_valid call leaves schema, name and log of the
\* instance as they were, and the log a validate call returns holds the
\* entries of that call's document only: one ERROR entry per violation (one
\* for a document that is not well-formed) and the INFO entry, whatever was
\* validated before
C22_InstanceReusable ==
    [][doc' # None =>
         /\ validator' = validator
         /\ (vlog' # None /\ ~IsRaised(vlog')) =>
              /\ Len(Pick(vlog'.log, ERROR))
                   = (IF doc'.well_formed THEN Len(doc'.errors) ELSE 1)
              /\ Len(vlog'.log) = Len(Pick(vlog'.log, ERROR)) + 1]_vars

\* a validate call that returned one ERROR entry for each violation of its
\* document, on an instance whose own log is empty
C22_Witness ==
    /\ vlog # None /\ ~IsRaised(vlog)
    /\ doc.well_formed /\ doc.errors # <<>>
    /\ Len(Pick(vlog.log, ERROR)) = Len(doc.errors)
    /\ validator.log = Logger

\* C23: a compile call of either compiler leaves the Input Model as it was:
\* baginfo, manifests, payload_files, significant_properties, the children
\* of the secondary DC document in their order, and the source-metadata
\* document
C23_InputModelUnchanged ==
    [][(DCCompile \/ IECompile) => ip' = ip]_vars

-----------------------------------------------------------------------------
(* The IE-level administrative section *)

\* the most type/value pairs in significant_properties.xml
MaxProperties == 2

\* significant properties as IP._load_significant_properties returns them
SignificantProperties ==
    {Dict([i \in 1..n |-> <<"type" \o ToString(i), "value" \o ToString(i)>>]) :
        n \in 0..MaxProperties}

\* IPs that differ in what the administrative section is made from:
\* Preservation-Level absent, given once, and given twice (a list)
AmdInputs ==
    {InputModel(Dict(IdentifierKeys \o pl), None, NoPayload, None, s, p) :
        pl \in {<<>>,
                << <<"Preservation-Level", Str("a")>> >>,
                << <<"Preservation-Level", List(<<"y", "b">>)>> >>},
        s \in {None, SourceMetadataTree},
        p \in {None} \cup SignificantProperties}

InitAmd == ip \in AmdInputs /\ InitComponents

\* the compilers on IPs that differ in the administrative metadata
SpecAmd == InitAmd /\ [][NextCompile]_vars

\* the dnx element of a techMD, rightsMD or digiprovMD part
DnxOf(part) == part.children[1].children[1].children[1]

\* the sections of a dnx element with the given id
SectionsOf(dnx, id) == SelectSeq(dnx.children, LAMBDA e : Attr(e, "id") = id)

\* C26: the amdSec that compile_ie_amdsec returns has ID "ie-amd"; its
\* children are techMD, rightsMD, sourceMD and digiprovMD in this order, with
\* sourceMD present exactly when the IP has source metadata; techMD holds one
\* preservationLevel record exactly when baginfo has Preservation-Level, and
\* one significantProperties record for each supplied pair, with its type
\* and value
C26_IeAmdSec ==
    (ie_doc # None /\ ~IsRaised(ie_doc) /\ ip.baginfo # None) =>
        LET amd == ie_doc.children[2]
            dnx == DnxOf(amd.children[1])
            level == SectionsOf(dnx, "preservationLevel")
            props == SectionsOf(dnx, "significantProperties")
            pairs == IF ip.significant_properties = None THEN <<>>
                     ELSE ip.significant_properties.items
        IN /\ amd.tag = "mets:amdSec"
           /\ Attr(amd, "ID") = "ie-amd"
           /\ [i \in 1..Len(amd.children) |-> amd.children[i].tag]
                = <<"mets:techMD", "mets:rightsMD">>
                  \o (IF ip.source_metadata # None THEN <<"mets:sourceMD">>
                      ELSE <<>>)
                  \o <<"mets:digiprovMD">>
           /\ Len(level)
                = (IF HasKey(ip.baginfo, "Preservation-Level") THEN 1 ELSE 0)
           /\ \A i \in 1..Len(level) :
                /\ Len(level[i].children) = 1
                /\ level[i].children[1].children[1].text
                     = Get(ip.baginfo, "Preservation-Level").str
           /\ Len(props) = (IF ip.significant_properties = None THEN 0 ELSE 1)
           /\ \A i \in 1..Len(props) :
                /\ Len(props[i].children) = Len(pairs)
                /\ \A k \in 1..Len(pairs) :
                     /\ props[i].children[k].children[1].text = pairs[k][1]
                     /\ props[i].children[k].children[2].text = pairs[k][2]

\* a section compiled from an IP with Preservation-Level and two
\* significant properties, but without source metadata
C26_Witness ==
    /\ ie_doc # None /\ ~IsRaised(ie_doc) /\ ip.baginfo # None
    /\ HasKey(ip.baginfo, "Preservation-Level")
    /\ ip.source_metadata = None
    /\ ip.significant_properties # None
    /\ Len(ip.significant_properties.items) = MaxProperties
    /\ Len(ie_doc.children[2].children) = 3

\* the files of the representations, in representation order and then file
\* order, each with the index of its representation
FilesInOrder(reps) ==
    FlattenSeq([i \in 1..Len(reps) |->
        [j \in 1..Len(reps[i].files) |->
            [rep |-> reps[i].index, file |-> reps[i].files[j]]]])

\* C27: the sections that compile_file_amdsecs contributes to the document
\* are one per File, in representation order and then file order, each
\* identified by the indices of its representation and file, and each with
\* one fileFixity section that holds one record (type, value) per entry of
\* the file's checksums, none for a file without checksums
C27_FileAmdSecs ==
    (/\ ie_doc # None
     /\ ~IsRaised(ie_doc)
     /\ representations # None
     /\ ~IsRaised(representations)) =>
        LET reps == representations.list
            files == FilesInOrder(reps)
            first == 2 + Len(reps)
            secs == SubSeq(ie_doc.children, first + 1,
                           Len(ie_doc.children) - 1)
        IN /\ Len(secs) = Len(files)
           /\ \A k \in 1..Len(files) :
                LET dnx == DnxOf(secs[k].children[1])
                    sums == files[k].file.checksums.items
                IN /\ secs[k].tag = "mets:amdSec"
                   /\ Attr(secs[k], "ID")
                        = "fid" \o ToString(files[k].rep) \o "-"
                          \o ToString(files[k].file.index) \o "-amd"
                   /\ Len(secs[k].children) = 1
                   /\ secs[k].children[1].tag = "mets:techMD"
                   /\ Len(dnx.children) = 1
                   /\ Attr(dnx.children[1], "id") = "fileFixity"
                   /\ Len(dnx.children[1].children) = Len(sums)
                   /\ \A c \in 1..Len(sums) :
                        LET record == dnx.children[1].children[c]
                        IN /\ Attr(record.children[1], "id") = "fixityType"
                           /\ record.children[1].text = sums[c][1]
                           /\ Attr(record.children[2], "id") = "fixityValue"
                           /\ record.children[2].text = sums[c][2]

\* a document for several representations, one of them without files and
\* one with a file that has two checksums
C27_Witness ==
    /\ ie_doc # None /\ ~IsRaised(ie_doc)
    /\ representations # None /\ ~IsRaised(representations)
    /\ Len(representations.list) >= 2
    /\ \E i \in 1..Len(representations.list) :
         \E j \in 1..Len(representations.list[i].files) :
            Len(representations.list[i].files[j].checksums.items) = 2
    /\ \E i \in 1..Len(representations.list) :
         representations.list[i].files = <<>>

-----------------------------------------------------------------------------
(* Build jobs that run side by side on one view *)

\* the most jobs that run at the same time
MaxJobs == 2

\* a job of the worker pool: where it is in BuildView.build, the IP it read,
\* the log of its report and data.success
Job(pc, ip_, log, success) ==
    [pc |-> pc, ip |-> ip_, log |-> log, success |-> success]

\* the IPs of these jobs: with and without External-Identifier, and one whose
\* payload file a manifest does not list
ConcurrentInputs ==
    {InputModel(CompleteBaginfo, FullManifests, NoPayload, None, None, None),
     InputModel(BaginfoWithoutExternalIdentifier, FullManifests, NoPayload,
                None, None, None),
     InputModel(CompleteBaginfo, PartialManifests, OneMasterFile, None, None,
                None)}

\* the configuration of the view these jobs run on: both validations off
ConcurrentConfigs ==
    {cfg \in JobConfigs : /\ ~cfg.VALIDATION_ROSETTA_METS_ACTIVE
                          /\ ~cfg.VALIDATION_DCXML_ACTIVE}

\* BuildView.build up to ip = IP(path), with an output path
JobStart(j) ==
    /\ jobs[j].pc = "idle"
    /\ \E loaded \in ConcurrentInputs :
         jobs' = [jobs EXCEPT ![j] = Job("compile_dc", loaded, <<>>, None)]
    /\ UNCHANGED <<compilerVars, validatorVars, config, loadable, view, mv,
                   stderr, events, builder_log, sip, report, job_calls,
                   build_call>>

\* dc = self.dc_compiler.compile_as_string(ip)
JobCompileDC(j) ==
    /\ jobs[j].pc = "compile_dc"
    /\ \E r \in {DC_compile(jobs[j].ip)} :
         /\ dc_log' = ResetLog(dc_log) \o r.log
         /\ dc_doc' = r.doc
         /\ dc_str' = tostring(r.doc)
         /\ dc_prev' = dc_str
    /\ ip' = jobs[j].ip
    /\ jobs' = [jobs EXCEPT ![j].pc = "merge_dc"]
    /\ UNCHANGED <<ie_log, ie_doc, ie_str, ie_prev, dmdsec, representations,
                   validatorVars, config, loadable, view, mv, stderr, events,
                   builder_log, sip, report, job_calls, build_call>>

\* info.report.log.merge(self.dc_compiler.log)
JobMergeDC(j) ==
    /\ jobs[j].pc = "merge_dc"
    /\ jobs' = [jobs EXCEPT ![j].pc = "compile_ie", ![j].log = @ \o dc_log]
    /\ UNCHANGED <<compilerVars, validatorVars, config, loadable, view, mv,
                   stderr, events, builder_log, sip, report, job_calls,
                   build_call>>

\* ie = self.ie_compiler.compile_as_string(ip); an exception ends the job
JobCompileIE(j) ==
    /\ jobs[j].pc = "compile_ie"
    /\ \E r \in {IE_compile(jobs[j].ip)} :
         /\ ie_log' = ResetLog(ie_log) \o r.log
         /\ ie_doc' = r.doc
         /\ ie_str' = IF IsRaised(r.doc) THEN r.doc ELSE tostring(r.doc)
         /\ ie_prev' = ie_str
         /\ dmdsec' = r.dmdsec
         /\ representations' = r.representations
         /\ ip' = [jobs[j].ip EXCEPT !.dc_xml = r.dc_xml]
         /\ jobs' = [jobs EXCEPT
                       ![j].pc = IF IsRaised(r.doc) THEN "raised"
                                 ELSE "merge_ie",
                       ![j].ip = [@ EXCEPT !.dc_xml = r.dc_xml]]
    /\ UNCHANGED <<dc_log, dc_doc, dc_str, dc_prev, validatorVars, config,
                   loadable, view, mv, stderr, events, builder_log, sip,
                   report, job_calls, build_call>>

\* info.report.log.merge(self.ie_compiler.log)
JobMergeIE(j) ==
    /\ jobs[j].pc = "merge_ie"
    /\ jobs' = [jobs EXCEPT ![j].pc = "build", ![j].log = @ \o ie_log]
    /\ UNCHANGED <<compilerVars, validatorVars, config, loadable, view, mv,
                   stderr, events, builder_log, sip, report, job_calls,
                   build_call>>

\* the validation loop, which calls no validator that is switched off, and
\* info.report.data.success = all([...])
JobBuild(j) ==
    /\ jobs[j].pc = "build"
    /\ \E fs \in JobFileSystems :
         \E r \in {ValidateAndBuild(config, view, jobs[j].log, 0, 0, fs)} :
           /\ builder_log' = ResetLog(builder_log) \o r.builder_entries
           /\ sip' = SIP(r.built, r.files)
           /\ build_call' = [returned |-> r.returned, steps |-> r.steps]
           /\ jobs' = [jobs EXCEPT ![j].pc = "merge_builder",
                                   ![j].log = r.before,
                                   ![j].success = r.success]
    /\ UNCHANGED <<compilerVars, validatorVars, config, loadable, view, mv,
                   stderr, events, report, job_calls>>

\* info.report.log.merge(self.builder.log), and the end of the job
JobMergeBuilder(j) ==
    /\ jobs[j].pc = "merge_builder"
    /\ jobs' = [jobs EXCEPT ![j].pc = "done", ![j].log = @ \o builder_log]
    /\ UNCHANGED <<compilerVars, validatorVars, config, loadable, view, mv,
                   stderr, events, builder_log, sip, report, job_calls,
                   build_call>>

\* a step of one of the jobs of the worker pool
JobStep(j) ==
    \/ JobStart(j)
    \/ JobCompileDC(j)
    \/ JobMergeDC(j)
    \/ JobCompileIE(j)
    \/ JobMergeIE(j)
    \/ JobBuild(j)
    \/ JobMergeBuilder(j)

NextConcurrent == \E j \in 1..MaxJobs : JobStep(j)

\* a view without validators, and jobs that have not started
InitConcurrent ==
    /\ ip = DeficientIP
    /\ dc_log = Logger /\ dc_doc = None /\ dc_str = None /\ dc_prev = None
    /\ ie_log = Logger /\ ie_doc = None /\ ie_str = None /\ ie_prev = None
    /\ dmdsec = None /\ representations = None
    /\ validator = None /\ ctor_args = None /\ load_calls = <<>>
    /\ doc = None /\ vlog = None /\ valid = None
    /\ config \in ConcurrentConfigs
    /\ loadable = AllSources
    /\ \E r \in {BuildView_init(config, AllSources)} :
         /\ view = r.view
         /\ mv = r.mv
         /\ stderr = r.stderr
         /\ events = r.events
    /\ builder_log = Logger /\ sip = None /\ report = None
    /\ job_calls = <<>> /\ build_call = None
    /\ jobs = [j \in 1..MaxJobs |-> Job("idle", None, <<>>, None)]

\* the jobs of one view, their steps interleaved
SpecConcurrent == InitConcurrent /\ [][NextConcurrent]_vars

\* the entries of a log that a compiler logged
CompilerEntries(log) == SelectSeq(log, LAMBDA e : e.origin \in {DC_TAG, IE_TAG})

\* C21: whatever the other jobs do in between, the compiler entries in a
\* job's report are those of compiling the job's own IP: once both compiler
\* logs are merged, the report holds one ERROR entry of a compiler when the
\* job's bag-info.txt lacks a key of the identifier, and none otherwise
C21_OwnCompilerEntries ==
    \A j \in 1..Len(jobs) :
        jobs[j].pc \in {"build", "merge_builder", "done"} =>
            /\ Len(CompilerEntries(jobs[j].log)) <= 1
            /\ HasError(CompilerEntries(jobs[j].log))
                 <=> ~HasIdentifierKeys(jobs[j].ip.baginfo)
=============================================================================
